---- MODULE Spec2Model ----
(***************************************************************************)
(* A model of the support library of pandaman64/game-engine (src/lib.rs):  *)
(* the first-person camera FPSCamera, and the Mesh / Model wrappers with   *)
(* the part of the OpenGL context they drive.                              *)
(*                                                                         *)
(* Numbers.  The library computes in f32.  The model computes in fixed     *)
(* point: angles (yaw, pitch, fov) in 1/AngleScale degrees, components of  *)
(* the direction vector in 1/DirScale, time in milliseconds, coordinates   *)
(* of the position in 1/PosScale.  Cursor positions are whole pixels.      *)
(* NaN and the infinities are not represented.                             *)
(***************************************************************************)
EXTENDS Integers, Sequences, FiniteSets, TLC

----------------------------------------------------------------------------
(* Bounds of the model *)

\* handler invocations (events and keyboard polls) of one camera run
MaxSteps == 4

----------------------------------------------------------------------------
(* Fixed-point representation *)

AngleScale == 100
DirScale == 10000
PosScale == DirScale * 1000

\* program constants
PITCH_LIMIT == 89
FOV_MIN == 1
FOV_MAX == 45
SENSITIVITY == 5
SPEED == 5

Deg(d) == d * AngleScale

PitchMax == Deg(PITCH_LIMIT)
PitchMin == -Deg(PITCH_LIMIT)
FovMin == Deg(FOV_MIN)
FovMax == Deg(FOV_MAX)

Abs(a) == IF a < 0 THEN -a ELSE a

\* a / b rounded to the nearest integer, b > 0
RDiv(a, b) == IF a >= 0 THEN (2 * a + b) \div (2 * b)
                        ELSE -((2 * (-a) + b) \div (2 * b))

\* xoffset * SENSITIVITY, SENSITIVITY being 0.05 degrees a pixel
Scaled(offset) == RDiv(offset * SENSITIVITY * AngleScale, 100)

\* sin of 0..90 degrees, in 1/DirScale
SinTab ==
   << 0, 175, 349, 523, 698, 872, 1045, 1219, 1392, 1564, 1736, 1908, 2079,
      2250, 2419, 2588, 2756, 2924, 3090, 3256, 3420, 3584, 3746, 3907, 4067, 4226,
      4384, 4540, 4695, 4848, 5000, 5150, 5299, 5446, 5592, 5736, 5878, 6018, 6157,
      6293, 6428, 6561, 6691, 6820, 6947, 7071, 7193, 7314, 7431, 7547, 7660, 7771,
      7880, 7986, 8090, 8192, 8290, 8387, 8480, 8572, 8660, 8746, 8829, 8910, 8988,
      9063, 9135, 9205, 9272, 9336, 9397, 9455, 9511, 9563, 9613, 9659, 9703, 9744,
      9781, 9816, 9848, 9877, 9903, 9925, 9945, 9962, 9976, 9986, 9994, 9998, 10000 >>

\* sin of a whole number of degrees
SinDeg(d) ==
    LET m == d % 360
    IN  IF m <= 90 THEN SinTab[m + 1]
        ELSE IF m <= 180 THEN SinTab[180 - m + 1]
        ELSE IF m <= 270 THEN -SinTab[m - 180 + 1]
        ELSE -SinTab[360 - m + 1]

\* angle.to_radians().sin(): the table, interpolated inside a degree
Sin(a) ==
    LET d == a \div AngleScale
        r == a % AngleScale
    IN  SinDeg(d) + RDiv((SinDeg(d + 1) - SinDeg(d)) * r, AngleScale)

\* angle.to_radians().cos()
Cos(a) == Sin(a + Deg(90))

RECURSIVE SqrtFrom(_, _)
SqrtFrom(v, n) ==
    IF n * n <= v THEN n
    ELSE (CHOOSE out \in { SqrtFrom(v, m) : m \in { (n + v \div n) \div 2 } } : TRUE)

\* the integer square root (Newton's iteration from above)
Sqrt(v) == IF v = 0 THEN 0 ELSE SqrtFrom(v, IF v > 46340 THEN 46340 ELSE v)

Dot(u, v) == u[1] * v[1] + u[2] * v[2] + u[3] * v[3]

Magnitude(v) == (CHOOSE out \in { Sqrt(d) : d \in { Dot(u, u) : u \in { v } } } : TRUE)

\* cgmath InnerSpace::normalize: v / |v|
Normalize(v) ==
    (CHOOSE out \in { [i \in 1..3 |-> RDiv(u[1][i] * DirScale, u[2])] :
        u \in { << w, Magnitude(w) >> : w \in { v } } } : TRUE)

\* cgmath Vector3::cross
Cross(u, v) == << u[2] * v[3] - u[3] * v[2],
                  u[3] * v[1] - u[1] * v[3],
                  u[1] * v[2] - u[2] * v[1] >>

Add(u, v) == [i \in 1..3 |-> u[i] + v[i]]
Sub(u, v) == [i \in 1..3 |-> u[i] - v[i]]
Mul(v, k) == [i \in 1..3 |-> v[i] * k]

----------------------------------------------------------------------------
(* FPSCamera *)

VARIABLES
    position,     \* Point3, in 1/PosScale
    direction,    \* Vector3, in 1/DirScale
    fov, yaw, pitch,
    last_x, last_y,
    ratio,        \* in 1/1000
    first_mouse,
    \* the run, as the caller sees it
    steps,        \* handler invocations so far
    op,           \* the handler branch that ran last
    event,        \* the event, or the keyboard state and delta_time, it was given
    before,       \* the camera as it was when that handler was entered
    created,      \* the fov and pitch the constructor was given
    cursor        \* where the window system last reported the pointer

camera == [position |-> position, direction |-> direction, fov |-> fov,
           yaw |-> yaw, pitch |-> pitch, last_x |-> last_x, last_y |-> last_y,
           ratio |-> ratio, first_mouse |-> first_mouse]

camVars == << position, direction, fov, yaw, pitch, last_x, last_y, ratio,
              first_mouse, steps, op, event, before, created, cursor >>

\* arguments the constructor is called with
\* (fov, pitch): the examples' 45 and 0, and values outside the ranges
NewArgs == { << Deg(45), Deg(0) >>, << Deg(60), Deg(100) >>, << Deg(0), Deg(-100) >> }
NewYaw == Deg(-90)

\* inputs of the handlers
CursorPositions == { << 0, 0 >>, << 500, 0 >>, << 500, 1000 >>, << 0, 4000 >> }
ScrollYs == { -50, 20, 50 }
DeltaTimes == { 16 }
Keys == { "W", "S", "A", "D" }
KeyStates == { k \in SUBSET Keys : Cardinality(k) <= 1 } \cup { {"W", "S"}, {"A", "D"}, {"W", "D"} }

WindowEvents ==
    { [type |-> "CursorPos", x |-> p[1], y |-> p[2]] : p \in CursorPositions }
        \cup [type : {"Scroll"}, x : {0}, y : ScrollYs]
        \cup [type : {"Key"}, x : {0}, y : {0}]
        \cup [type : {"FramebufferSize"}, x : {800}, y : {600}]

NoCursor == << >>

\* FPSCamera::new
New(pos, dir, fov0, yaw0, pitch0, ratio0) ==
    /\ position = pos
    /\ direction = dir
    /\ fov = fov0
    /\ yaw = yaw0
    /\ pitch = pitch0
    /\ last_x = 0
    /\ last_y = 0
    /\ ratio = ratio0
    /\ first_mouse = TRUE

CameraInit ==
    /\ \E a \in NewArgs :
          New(<< 0, 0, 3 * PosScale >>, << 0, 0, -DirScale >>, a[1], NewYaw, a[2], 1333)
    /\ steps = 0
    /\ op = "new"
    /\ event = [type |-> "none"]
    /\ before = [type |-> "none"]
    /\ created = [fov |-> fov, pitch |-> pitch]
    /\ cursor = NoCursor

\* bookkeeping of a call: what ran, on what, from which camera state
Called(name, e) ==
    /\ steps' = steps + 1
    /\ op' = name
    /\ event' = e
    /\ before' = camera
    /\ cursor' = IF e.type = "CursorPos" THEN << e.x, e.y >> ELSE cursor
    /\ UNCHANGED created

\* a clamp that forgets the lower limit
ClampPitchUpperOnly(p) == IF p > PitchMax THEN PitchMax ELSE p

\* the pitch clamp of the cursor handler
ClampPitch(p) == IF p > PitchMax THEN PitchMax
                 ELSE IF p < PitchMin THEN PitchMin ELSE p

\* a direction whose y component takes the cosine of pitch
DirectionOfCosY(y, p) ==
    Normalize(<< RDiv(Cos(p) * Cos(y), DirScale),
                 Cos(p),
                 RDiv(Cos(p) * Sin(y), DirScale) >>)

\* the direction the cursor handler derives from yaw and pitch
DirectionOf(y, p) ==
    (CHOOSE out \in { Normalize(<< RDiv(Cos(a[2]) * Cos(a[1]), DirScale),
                                   Sin(a[2]),
                                   RDiv(Cos(a[2]) * Sin(a[1]), DirScale) >>) :
        a \in { << y, p >> } } : TRUE)

\* a latch that does not clear the first-motion flag
CursorLatchKeepsFlag(e) ==
    /\ e.type = "CursorPos"
    /\ first_mouse
    /\ last_x' = e.x
    /\ last_y' = e.y
    /\ UNCHANGED << position, direction, fov, yaw, pitch, ratio, first_mouse >>
    /\ Called("latch", e)

\* process_event, CursorPos arm, first event: latch and return
CursorLatch(e) ==
    /\ e.type = "CursorPos"
    /\ first_mouse
    /\ first_mouse' = FALSE
    /\ last_x' = e.x
    /\ last_y' = e.y
    /\ UNCHANGED << position, direction, fov, yaw, pitch, ratio >>
    /\ Called("latch", e)

\* a cursor move that clamps the yaw as it clamps the pitch
CursorMoveClampsYaw(e) ==
    /\ e.type = "CursorPos"
    /\ ~first_mouse
    /\ LET xoffset == e.x - last_x
           yoffset == last_y - e.y
           newYaw == ClampPitch(yaw + Scaled(xoffset))
           newPitch == ClampPitch(pitch + Scaled(yoffset))
       IN  /\ last_x' = e.x
           /\ last_y' = e.y
           /\ yaw' = newYaw
           /\ pitch' = newPitch
           /\ direction' = DirectionOf(newYaw, newPitch)
    /\ UNCHANGED << position, fov, ratio, first_mouse >>
    /\ Called("move", e)

\* process_event, CursorPos arm, every later event
CursorMove(e) ==
    /\ e.type = "CursorPos"
    /\ ~first_mouse
    /\ LET xoffset == e.x - last_x
           yoffset == last_y - e.y
           newYaw == yaw + Scaled(xoffset)
           newPitch == ClampPitch(pitch + Scaled(yoffset))
       IN  /\ last_x' = e.x
           /\ last_y' = e.y
           /\ yaw' = newYaw
           /\ pitch' = newPitch
           /\ direction' = DirectionOf(newYaw, newPitch)
    /\ UNCHANGED << position, fov, ratio, first_mouse >>
    /\ Called("move", e)

\* a scroll without the lower clamp
ScrollFovNoLower(f, yoffset) ==
    LET f1 == IF f >= FovMin /\ f <= FovMax THEN f - Deg(yoffset) ELSE f
    IN  IF f1 >= FovMax THEN FovMax ELSE f1

\* a scroll without the upper clamp
ScrollFovNoUpper(f, yoffset) ==
    LET f1 == IF f >= FovMin /\ f <= FovMax THEN f - Deg(yoffset) ELSE f
    IN  IF f1 <= FovMin THEN FovMin ELSE f1

\* a scroll that applies the delta whatever the fov
ScrollFovUnguarded(f, yoffset) ==
    LET f1 == f - Deg(yoffset)
        f2 == IF f1 <= FovMin THEN FovMin ELSE f1
    IN  IF f2 >= FovMax THEN FovMax ELSE f2

\* the fov a Scroll event leaves
ScrollFov(f, yoffset) ==
    LET f1 == IF f >= FovMin /\ f <= FovMax THEN f - Deg(yoffset) ELSE f
        f2 == IF f1 <= FovMin THEN FovMin ELSE f1
    IN  IF f2 >= FovMax THEN FovMax ELSE f2

\* process_event, Scroll arm
Scroll(e) ==
    /\ e.type = "Scroll"
    /\ fov' = ScrollFov(fov, e.y)
    /\ UNCHANGED << position, direction, yaw, pitch, last_x, last_y, ratio, first_mouse >>
    /\ Called("scroll", e)

\* a handler that arms the cursor latch again on every other event
OtherEventRearms(e) ==
    /\ e.type \notin { "CursorPos", "Scroll" }
    /\ first_mouse' = TRUE
    /\ UNCHANGED << position, direction, fov, yaw, pitch, last_x, last_y, ratio >>
    /\ Called("other", e)

\* process_event, every other event
OtherEvent(e) ==
    /\ e.type \notin {"CursorPos", "Scroll"}
    /\ UNCHANGED << position, direction, fov, yaw, pitch, last_x, last_y, ratio,
                    first_mouse >>
    /\ Called("other", e)

\* process_event, the arm the event selects
Dispatch(e) ==
    \/ CursorLatch(e)
    \/ CursorMove(e)
    \/ Scroll(e)
    \/ OtherEvent(e)

\* FPSCamera::process_event
ProcessEvent ==
    /\ steps < MaxSteps
    /\ \E e \in WindowEvents : Dispatch(e)

\* the step a held key contributes: SPEED * delta_time along v
Step(v, dt) == Mul(v, SPEED * dt)

Up == << 0, DirScale, 0 >>

\* direction.cross(up).normalize()
Right(dir) == Normalize([i \in 1..3 |-> RDiv(Cross(dir, Up)[i], DirScale)])

\* a poll whose A key moves the same way as D
MovedASameAsD(pos, dir, keys, dt) ==
    LET p1 == IF "W" \in keys THEN Add(pos, Step(dir, dt)) ELSE pos
        p2 == IF "S" \in keys THEN Sub(p1, Step(dir, dt)) ELSE p1
        p3 == IF "D" \in keys THEN Add(p2, Step(Right(dir), dt)) ELSE p2
    IN  IF "A" \in keys THEN Add(p3, Step(Right(dir), dt)) ELSE p3

\* the position process_mouse leaves, the four key tests in source order
Moved(pos, dir, keys, dt) ==
    LET p1 == IF "W" \in keys THEN Add(pos, Step(dir, dt)) ELSE pos
        p2 == IF "S" \in keys THEN Sub(p1, Step(dir, dt)) ELSE p1
        p3 == IF "D" \in keys THEN Add(p2, Step(Right(dir), dt)) ELSE p2
    IN  IF "A" \in keys THEN Sub(p3, Step(Right(dir), dt)) ELSE p3

\* process_mouse with the keys that are down
Poll(keys, dt) ==
    /\ position' = Moved(position, direction, keys, dt)
    /\ UNCHANGED << direction, fov, yaw, pitch, last_x, last_y, ratio, first_mouse >>
    /\ Called("poll", [type |-> "poll", keys |-> keys, dt |-> dt])

\* FPSCamera::process_mouse
ProcessMouse ==
    /\ steps < MaxSteps
    /\ \E keys \in KeyStates, dt \in DeltaTimes : Poll(keys, dt)

----------------------------------------------------------------------------
(* The OpenGL context, as far as Mesh, Model and the texture loader drive it *)

VARIABLES
    gl,           \* the context: objects, bindings, uniforms, the calls made
    models,       \* the Model values the program holds, in the order of loading
    result,       \* how the last call ended: "Ok", "Err", "panic" (for a shader
                  \* creation the message of the panic), or "none"
    panicked,     \* a panic has unwound the program
    ops,          \* library calls made so far
    call,         \* the library call made last, with its arguments
    returned      \* the handle the last call returned, 0 when it returned none

modelVars == << gl, models, result, panicked, ops, call, returned >>

\* library calls of one run
MaxOps == 3

\* the uniforms the lighting shader of stencil.rs is given in each frame, in
\* the order of its set_vec3 and set_float calls
LightUniforms ==
    << "cameraPos", "material.shininess", "spotLight.position", "spotLight.direction",
       "spotLight.cutOff", "spotLight.outerCutOff", "spotLight.ambient",
       "spotLight.diffuse", "spotLight.specular", "pointLights[0].position",
       "pointLights[0].ambient", "pointLights[0].diffuse", "pointLights[0].specular",
       "pointLights[0].constant", "pointLights[0].linear", "pointLights[0].quadratic",
       "pointLights[1].position", "pointLights[1].ambient", "pointLights[1].diffuse",
       "pointLights[1].specular", "pointLights[1].constant", "pointLights[1].linear",
       "pointLights[1].quadratic", "pointLights[2].position", "pointLights[2].ambient",
       "pointLights[2].diffuse", "pointLights[2].specular", "pointLights[2].constant",
       "pointLights[2].linear", "pointLights[2].quadratic", "pointLights[3].position",
       "pointLights[3].ambient", "pointLights[3].diffuse", "pointLights[3].specular",
       "pointLights[3].constant", "pointLights[3].linear", "pointLights[3].quadratic" >>

\* the bit planes of the stencil buffer, all set
StencilBits == 255

\* the linked programs of the run and the uniform locations of each
ProgramUniforms ==
    << << "material.texture_diffuse1", "material.texture_specular1",
          "material.texture_diffuse2" >>,
       << "model", "material.texture_diffuse1" >>,
       \* the programs of the examples, by the uniforms their sources declare
       << "model", "view", "projection", "material.texture_diffuse1" >>,
       << "view", "projection", "material.texture_diffuse1" >>,
       << "model", "view", "projection" >>,
       << "model", "view", "projection", "texture1", "texture2" >>,
       << "view", "projection", "skybox" >>,
       << "model", "view", "projection", "material.texture_diffuse1",
          "material.texture_specular1" >> \o LightUniforms >>

Programs == 1..Len(ProgramUniforms)

\* the shaders a program passes to the library calls it makes one by one
Shaders == 1..2

\* the uniform blocks of each of these programs, by block index
ProgramBlocks == << << "Matrices" >>, << >>, << >>, << >>, << >>, << >>, << >>, << >> >>
TextureUnits == 0..3
Amounts == { 100 }

NotFound == -1

GlInit ==
    [textures |-> << >>,         \* texture objects; the name of one is its index
     buffers |-> << >>,          \* buffer objects
     vaos |-> << >>,             \* vertex array objects
     active |-> 0,               \* the active texture unit
     units |-> [u \in TextureUnits |-> 0],   \* TEXTURE_2D binding of each unit
     array_buffer |-> 0,
     vao |-> 0,                  \* the bound vertex array
     program |-> 0,              \* the program in use
     uniforms |-> [p \in Programs |-> [i \in 1..Len(ProgramUniforms[p]) |-> 0]],
     warnings |-> 0,
     cube_map |-> 0,             \* the TEXTURE_CUBE_MAP binding
     shaders |-> << >>,          \* shader objects (stages)
     programs |-> [p \in Programs |-> [attached |-> << >>, linked |-> TRUE]],
     blocks |-> [p \in Programs |-> [i \in 1..Len(ProgramBlocks[p]) |-> 0]],
     depth_test |-> FALSE,       \* glIsEnabled(DEPTH_TEST)
     depth_func |-> "LESS",
     stencil_test |-> FALSE,
     stencil_func |-> << "ALWAYS", 0, StencilBits >>,
     stencil_mask |-> StencilBits,
     stencil_op |-> << "KEEP", "KEEP", "KEEP" >>,
     viewport |-> << 0, 0, 800, 600 >>,
     errors |-> 0,               \* GL errors raised and never read
     faces |-> {},               \* cube map images: texture, face, file, format
     calls |-> << >>]            \* the calls of the library call in progress

\* Below, an operator that reads the context (or another intermediate value)
\* more than once binds it first, as in  CHOOSE out \in { F(c) : c \in { g } } : TRUE,
\* which is F(g) with g evaluated once: one statement after another.

\* a call, appended to the log of calls
Logged(g, f, args) == [g EXCEPT !.calls = Append(@, << f >> \o args)]

\* a texture object without an image
NoImage ==
    [path |-> << >>, format |-> "none", mipmap |-> FALSE,
     wrap |-> [S |-> "none", T |-> "none", R |-> "none"],
     filter |-> [MIN |-> "none", MAG |-> "none"]]

\* glGenTextures(1, &mut texture): a new name
GenTextures(g) ==
    (CHOOSE out \in { Logged([c EXCEPT !.textures = Append(@, NoImage)],
               "GenTextures", << Len(c.textures) + 1 >>) :
        c \in { g } } : TRUE)

\* glBindTexture(TEXTURE_2D, id): binds in the active unit
BindTexture(g, id) ==
    (CHOOSE out \in { Logged([c EXCEPT !.units[c.active] = id], "BindTexture", << id >>) :
        c \in { g } } : TRUE)

\* glActiveTexture(TEXTURE0 + i)
ActiveTexture(g, i) == Logged([g EXCEPT !.active = i], "ActiveTexture", << i >>)

\* glTexImage2D on the texture bound in the active unit
TexImage2D(g, path, format) ==
    (CHOOSE out \in { Logged([c EXCEPT !.textures[c.units[c.active]].path = path,
                         !.textures[c.units[c.active]].format = format],
               "TexImage2D", << path, format >>) :
        c \in { g } } : TRUE)

GenerateMipmap(g) ==
    (CHOOSE out \in { Logged([c EXCEPT !.textures[c.units[c.active]].mipmap = TRUE],
               "GenerateMipmap", << >>) :
        c \in { g } } : TRUE)

\* glTexParameteri(TEXTURE_2D, TEXTURE_WRAP_<axis>, wrap)
TexWrap(g, axis, wrap) ==
    (CHOOSE out \in { Logged([c EXCEPT !.textures[c.units[c.active]].wrap[axis] = wrap],
               "TexParameteri", << "TEXTURE_WRAP_" \o axis, wrap >>) :
        c \in { g } } : TRUE)

\* glTexParameteri(TEXTURE_2D, TEXTURE_<which>_FILTER, filter)
TexFilter(g, which, filter) ==
    (CHOOSE out \in { Logged([c EXCEPT !.textures[c.units[c.active]].filter[which] = filter],
               "TexParameteri", << "TEXTURE_" \o which \o "_FILTER", filter >>) :
        c \in { g } } : TRUE)

\* glBindTexture(TEXTURE_CUBE_MAP, id)
BindTextureCubeMap(g, id) ==
    Logged([g EXCEPT !.cube_map = id], "BindTexture", << "TEXTURE_CUBE_MAP", id >>)

\* glTexImage2D(TEXTURE_CUBE_MAP_POSITIVE_X + i, ...): the image of face i of the
\* bound cube map; the targets from POSITIVE_X + 6 on are no face of it
TexImage2DFace(g, i, path, format) ==
    (CHOOSE out \in { Logged(IF i < 6
                                THEN [c EXCEPT !.faces =
                                        { f \in @ : << f[1], f[2] >> # << c.cube_map, i >> }
                                            \cup { << c.cube_map, i, path, format >> }]
                                ELSE c,
                                "TexImage2D", << "TEXTURE_CUBE_MAP_POSITIVE_X", i, path,
                                                 format >>) :
        c \in { g } } : TRUE)

\* glTexParameteri(TEXTURE_CUBE_MAP, TEXTURE_WRAP_<axis>, wrap)
CubeWrap(g, axis, wrap) ==
    (CHOOSE out \in { Logged([c EXCEPT !.textures[c.cube_map].wrap[axis] = wrap],
               "TexParameteri", << "TEXTURE_WRAP_" \o axis, wrap >>) :
        c \in { g } } : TRUE)

\* glTexParameteri(TEXTURE_CUBE_MAP, TEXTURE_<which>_FILTER, filter)
CubeFilter(g, which, filter) ==
    (CHOOSE out \in { Logged([c EXCEPT !.textures[c.cube_map].filter[which] = filter],
               "TexParameteri", << "TEXTURE_" \o which \o "_FILTER", filter >>) :
        c \in { g } } : TRUE)

\* glGetUniformLocation(program, name)
GetUniformLocation(p, name) ==
    IF \E i \in 1..Len(ProgramUniforms[p]) : ProgramUniforms[p][i] = name
    THEN (CHOOSE i \in 1..Len(ProgramUniforms[p]) : ProgramUniforms[p][i] = name) - 1
    ELSE NotFound

\* glUniform1i(location, value): writes to the program in use; location -1 is
\* ignored, any other location the program in use does not have is an error
Uniform1i(g, loc, value) ==
    (CHOOSE out \in { Logged(IF /\ loc # NotFound
                                 /\ c.program # 0
                                 /\ loc < Len(ProgramUniforms[c.program])
               THEN [c EXCEPT !.uniforms[c.program][loc + 1] = value]
               ELSE c,
               "Uniform1i", << loc, value >>) :
        c \in { g } } : TRUE)

\* Shader::set_integer, with get_uniform_location and its warning
SetInteger(g, shader, name, value) ==
    (CHOOSE out \in { Uniform1i([Logged(g, "GetUniformLocation", << shader, name >>)
                      EXCEPT !.warnings = IF loc = NotFound THEN @ + 1 ELSE @],
                  loc, value) :
        loc \in { GetUniformLocation(shader, name) } } : TRUE)

\* glUniform1f, glUniform2f, glUniform3f, glUniformMatrix4fv: as glUniform1i
UniformWrite(g, f, loc, value) ==
    (CHOOSE out \in { Logged(IF /\ loc # NotFound
                                 /\ c.program # 0
                                 /\ loc < Len(ProgramUniforms[c.program])
               THEN [c EXCEPT !.uniforms[c.program][loc + 1] = value]
               ELSE c,
               f, << loc, value >>) :
        c \in { g } } : TRUE)

\* a setter of Shader: get_uniform_location with its warning, then the write
\* f of gl
SetUniform(g, shader, name, f, value) ==
    (CHOOSE out \in { UniformWrite([Logged(g, "GetUniformLocation", << shader, name >>)
                         EXCEPT !.warnings = IF loc = NotFound THEN @ + 1 ELSE @],
                     f, loc, value) :
        loc \in { GetUniformLocation(shader, name) } } : TRUE)

\* Shader::set_float
SetFloat(g, shader, name, value) == SetUniform(g, shader, name, "Uniform1f", value)

\* Shader::set_matrix4
SetMatrix4(g, shader, name, mat) == SetUniform(g, shader, name, "UniformMatrix4fv", mat)

\* Shader::set_vec2
SetVec2(g, shader, name, x, y) == SetUniform(g, shader, name, "Uniform2f", << x, y >>)

\* Shader::set_vec3
SetVec3(g, shader, name, x, y, z) ==
    SetUniform(g, shader, name, "Uniform3f", << x, y, z >>)

\* GL_INVALID_INDEX, 0xFFFFFFFF, as a signed value
InvalidIndex == -1

\* glGetUniformBlockIndex(program, name)
GetUniformBlockIndex(p, name) ==
    IF \E i \in 1..Len(ProgramBlocks[p]) : ProgramBlocks[p][i] = name
    THEN (CHOOSE i \in 1..Len(ProgramBlocks[p]) : ProgramBlocks[p][i] = name) - 1
    ELSE InvalidIndex

\* glUniformBlockBinding(program, index, binding): an index that is no active
\* block of the program raises GL_INVALID_VALUE and binds nothing
UniformBlockBinding(g, p, index, binding) ==
    Logged(IF index = InvalidIndex
           THEN [g EXCEPT !.errors = @ + 1]
           ELSE [g EXCEPT !.blocks[p][index + 1] = binding],
           "UniformBlockBinding", << p, index, binding >>)

\* Shader::bind_uniform_block
BindUniformBlock(g, shader, name, binding_point) ==
    UniformBlockBinding(Logged(g, "GetUniformBlockIndex", << shader, name >>),
                        shader, GetUniformBlockIndex(shader, name), binding_point)

\* what the driver makes of a source text: it compiles unless it is "bad"
Compiles(src) == src # "bad"

\* the name of a stage in the panic message of compile_shader
StageName(ty) ==
    CASE ty = "VERTEX_SHADER" -> "vertex"
      [] ty = "GEOMETRY_SHADER" -> "geometry"
      [] ty = "FRAGMENT_SHADER" -> "fragment"
      [] OTHER -> "unknown"

\* glDeleteShader
DeleteShader(g, id) == Logged([g EXCEPT !.shaders[id].deleted = TRUE], "DeleteShader", << id >>)

\* compile_shader: glCreateShader, glShaderSource, glCompileShader and
\* glGetShaderiv; the context, whether it returned, the shader object, the
\* message of its panic
compile_shader(g, ty, src) ==
    (CHOOSE out \in {
        [gl |-> Logged(
                    Logged(
                        Logged(
                            Logged([c EXCEPT !.shaders =
                                        Append(@, [type |-> ty, source |-> src,
                                                   compiled |-> Compiles(src),
                                                   deleted |-> FALSE])],
                                   "CreateShader", << ty, Len(c.shaders) + 1 >>),
                            "ShaderSource", << Len(c.shaders) + 1, src >>),
                        "CompileShader", << Len(c.shaders) + 1 >>),
                    "GetShaderiv", << Len(c.shaders) + 1 >>),
         ok |-> Compiles(src),
         id |-> Len(c.shaders) + 1,
         message |-> IF Compiles(src) THEN ""
                     ELSE "failed to compile " \o StageName(ty) \o " shader"] :
        c \in { g } } : TRUE)

\* what the driver makes of the stages attached to a program: it links them
\* unless one did not compile or is "unmatched" (its interface fits no other)
Links(g, p) ==
    \A k \in DOMAIN g.programs[p].attached :
        /\ g.shaders[g.programs[p].attached[k]].compiled
        /\ g.shaders[g.programs[p].attached[k]].source # "unmatched"

\* glCreateProgram
CreateProgram(g) ==
    (CHOOSE out \in { Logged([c EXCEPT !.programs =
                                  Append(@, [attached |-> << >>, linked |-> FALSE])],
                             "CreateProgram", << Len(c.programs) + 1 >>) :
        c \in { g } } : TRUE)

\* glAttachShader
AttachShader(g, p, shader) ==
    Logged([g EXCEPT !.programs[p].attached = Append(@, shader)],
           "AttachShader", << p, shader >>)

\* link_program: glLinkProgram and glGetProgramiv; the context and whether it
\* returned
link_program(g, p) ==
    (CHOOSE out \in {
        [gl |-> Logged(Logged([c EXCEPT !.programs[p].linked = Links(c, p)],
                              "LinkProgram", << p >>),
                       "GetProgramiv", << p >>),
         ok |-> Links(c, p)] :
        c \in { g } } : TRUE)

\* glGenVertexArrays
GenVertexArrays(g) ==
    (CHOOSE out \in { Logged([c EXCEPT !.vaos = Append(@, [ebo |-> 0, attribs |-> {}])],
               "GenVertexArrays", << Len(c.vaos) + 1 >>) :
        c \in { g } } : TRUE)

\* glGenBuffers
GenBuffers(g) ==
    (CHOOSE out \in { Logged([c EXCEPT !.buffers = Append(@, [len |-> 0, uploads |-> 0])],
               "GenBuffers", << Len(c.buffers) + 1 >>) :
        c \in { g } } : TRUE)

BindVertexArray(g, id) == Logged([g EXCEPT !.vao = id], "BindVertexArray", << id >>)

BindArrayBuffer(g, id) ==
    Logged([g EXCEPT !.array_buffer = id], "BindBuffer", << "ARRAY_BUFFER", id >>)

\* glBindBuffer(ELEMENT_ARRAY_BUFFER, id): recorded in the bound vertex array
BindElementBuffer(g, id) ==
    (CHOOSE out \in { Logged([c EXCEPT !.vaos[c.vao].ebo = id],
               "BindBuffer", << "ELEMENT_ARRAY_BUFFER", id >>) :
        c \in { g } } : TRUE)

\* glBufferData on a buffer: len elements
BufferData(g, target, id, len) ==
    Logged([g EXCEPT !.buffers[id].len = len, !.buffers[id].uploads = @ + 1],
           "BufferData", << target, len >>)

\* glEnableVertexAttribArray(i) with its glVertexAttribPointer
VertexAttrib(g, i, size, offset) ==
    (CHOOSE out \in { Logged([c EXCEPT !.vaos[c.vao].attribs = @ \cup {<< i, size, offset >>}],
               "VertexAttribPointer", << i, size, offset >>) :
        c \in { g } } : TRUE)

\* glDrawElements(TRIANGLES, count, UNSIGNED_INT, 0)
DrawElements(g, count) == Logged(g, "DrawElements", << count >>)

\* glDrawElementsInstanced(TRIANGLES, count, UNSIGNED_INT, 0, amount)
DrawElementsInstanced(g, count, amount) ==
    Logged(g, "DrawElementsInstanced", << count, amount >>)

\* glDrawArrays(mode, first, count)
DrawArrays(g, first, count) == Logged(g, "DrawArrays", << first, count >>)

\* glUseProgram
UseProgramId(g, p) == Logged([g EXCEPT !.program = p], "UseProgram", << p >>)

\* glClearColor and glClear(bits)
Clear(g, bits) == Logged(g, "Clear", << bits >>)

\* glEnable(cap)
Enable(g, cap) ==
    Logged(CASE cap = "DEPTH_TEST" -> [g EXCEPT !.depth_test = TRUE]
             [] cap = "STENCIL_TEST" -> [g EXCEPT !.stencil_test = TRUE]
             [] OTHER -> g,
           "Enable", << cap >>)

\* glDisable(cap)
Disable(g, cap) ==
    Logged(CASE cap = "DEPTH_TEST" -> [g EXCEPT !.depth_test = FALSE]
             [] cap = "STENCIL_TEST" -> [g EXCEPT !.stencil_test = FALSE]
             [] OTHER -> g,
           "Disable", << cap >>)

\* glDepthFunc(func)
DepthFunc(g, func) == Logged([g EXCEPT !.depth_func = func], "DepthFunc", << func >>)

\* glStencilFunc(func, ref, mask)
StencilFunc(g, func, ref, mask) ==
    Logged([g EXCEPT !.stencil_func = << func, ref, mask >>], "StencilFunc",
           << func, ref, mask >>)

\* glStencilMask(mask)
StencilMask(g, mask) == Logged([g EXCEPT !.stencil_mask = mask], "StencilMask", << mask >>)

\* glViewport(x, y, width, height)
Viewport(g, x, y, width, height) ==
    Logged([g EXCEPT !.viewport = << x, y, width, height >>], "Viewport",
           << x, y, width, height >>)

\* glStencilOp(sfail, dpfail, dppass)
StencilOp(g, sfail, dpfail, dppass) ==
    Logged([g EXCEPT !.stencil_op = << sfail, dpfail, dppass >>], "StencilOp",
           << sfail, dpfail, dppass >>)

----------------------------------------------------------------------------
(* The files of the run *)

\* a path: directory and file name
Path(dir, file) == [dir |-> dir, file |-> file]

\* Path::with_file_name
WithFileName(name, file) == [dir |-> name.dir, file |-> file]

\* what image::open finds at a path
ImageKind(path) ==
    CASE path = Path("planet", "mars.png") -> "ImageRgb8"
      [] path = Path("rock", "rock.png") -> "ImageRgb8"
      [] path = Path("rock", "rock_spec.png") -> "ImageRgba8"
      [] path = Path("suit", "gray.png") -> "ImageLuma8"
      [] path = Path("nanosuit", "body_dif.png") -> "ImageRgb8"
      [] path = Path("nanosuit", "body_showroom_spec.png") -> "ImageRgb8"
      [] path = Path("examples", "marble.jpg") -> "ImageRgb8"
      [] path = Path("examples", "metal.png") -> "ImageRgb8"
      [] path \in { Path("skybox", file) :
                      file \in { "right.jpg", "left.jpg", "top.jpg", "bottom.jpg",
                                 "front.jpg", "back.jpg" } } -> "ImageRgb8"
      [] OTHER -> "missing"

NoMaterial == 0

SubMesh(positions, normals, texcoords, indices, material_id) ==
    [positions |-> positions, normals |-> normals, texcoords |-> texcoords,
     indices |-> indices, material_id |-> material_id]

Material(diffuse, specular) == [diffuse_texture |-> diffuse, specular_texture |-> specular]

Tri == SubMesh(<< 0, 0, 0, 1, 0, 0, 0, 1, 0 >>, << 0, 0, 1, 0, 0, 1, 0, 0, 1 >>,
               << 0, 0, 1, 0, 0, 1 >>, << 0, 1, 2 >>, 1)
Quad == SubMesh(<< 0, 0, 0, 1, 0, 0, 0, 1, 0, 1, 1, 0 >>,
                << 0, 0, 1, 0, 0, 1, 0, 0, 1, 0, 0, 1 >>,
                << 0, 0, 1, 0, 0, 1, 1, 1 >>, << 0, 1, 2, 2, 1, 3 >>, 1)

\* what tobj::load_obj returns for a file: an Err, or the models and materials
Parsed(name) ==
    CASE name = Path("planet", "planet.obj") ->
            [ok |-> TRUE, models |-> << Quad >>, materials |-> << Material("mars.png", "") >>]
      [] name = Path("rock", "rock.obj") ->
            [ok |-> TRUE, models |-> << Tri, Quad >>,
             materials |-> << Material("rock.png", "rock_spec.png") >>]
      [] name = Path("rock", "pebble.obj") ->
            [ok |-> TRUE, models |-> << [Tri EXCEPT !.material_id = NoMaterial], Tri >>,
             materials |-> << Material("rock.png", "") >>]
      [] name = Path("suit", "suit.obj") ->
            [ok |-> TRUE, models |-> << Tri >>, materials |-> << Material("gray.png", "") >>]
      [] name = Path("nanosuit", "nanosuit.obj") ->
            [ok |-> TRUE, models |-> << Tri, Quad >>,
             materials |-> << Material("body_dif.png", "body_showroom_spec.png") >>]
      [] name = Path("suit", "empty.obj") ->        \* a file without geometry
            [ok |-> TRUE, models |-> << >>, materials |-> << >>]
      [] name = Path("rock", "bare.obj") ->         \* the second object has no vn lines
            [ok |-> TRUE,
             models |-> << [Tri EXCEPT !.material_id = NoMaterial],
                           [Tri EXCEPT !.normals = << >>, !.material_id = NoMaterial] >>,
             materials |-> << >>]
      [] name = Path("rock", "flat.obj") ->         \* two texture coordinates short
            [ok |-> TRUE,
             models |-> << [Quad EXCEPT !.texcoords = << 0, 0, 1, 0, 0, 1 >>,
                                        !.material_id = NoMaterial] >>,
             materials |-> << >>]
      [] name = Path("rock", "extra.obj") ->        \* a normal and a coordinate too many
            [ok |-> TRUE,
             models |-> << [Tri EXCEPT !.normals = @ \o << 1, 0, 0 >>,
                                       !.texcoords = @ \o << 1, 1 >>,
                                       !.material_id = NoMaterial] >>,
             materials |-> << >>]
      [] name = Path("rock", "lost.obj") ->         \* the image of the material is gone
            [ok |-> TRUE, models |-> << Tri >>, materials |-> << Material("gone.png", "") >>]
      [] name = Path("rock", "plain.obj") ->        \* map_Kd and map_Ks name one file
            [ok |-> TRUE, models |-> << Tri >>,
             materials |-> << Material("rock.png", "rock.png") >>]
      [] OTHER -> [ok |-> FALSE]

ObjNames == { Path("planet", "planet.obj"), Path("rock", "rock.obj"),
              Path("rock", "pebble.obj"), Path("suit", "suit.obj"),
              Path("suit", "none.obj"), Path("suit", "empty.obj"),
              Path("rock", "bare.obj"), Path("rock", "flat.obj"),
              Path("rock", "extra.obj"), Path("rock", "lost.obj"),
              Path("rock", "plain.obj") }

----------------------------------------------------------------------------
(* Textures, Mesh and Model *)

\* the upload of load_texture, from glBindTexture on
Upload(g, id, path, format, wrap) ==
    TexFilter(
        TexFilter(
            TexWrap(TexWrap(GenerateMipmap(TexImage2D(BindTexture(g, id), path, format)),
                            "S", wrap),
                    "T", wrap),
            "MIN", "LINEAR_MIPMAP_LINEAR"),
        "MAG", "LINEAR")

\* a loader that sets REPEAT whatever the format
LoadTextureRepeats(g, path) ==
    (CHOOSE out \in { IF ImageKind(path) = "missing" THEN [gl |-> c, ok |-> FALSE, id |-> 0]
        ELSE IF ImageKind(path) \notin {"ImageRgb8", "ImageRgba8"}
        THEN [gl |-> GenTextures(c), ok |-> FALSE, id |-> 0]
        ELSE [gl |-> Upload(GenTextures(c), Len(c.textures) + 1, path,
                            IF ImageKind(path) = "ImageRgb8" THEN "RGB" ELSE "RGBA",
                            "REPEAT"),
              ok |-> TRUE, id |-> Len(c.textures) + 1] :
        c \in { g } } : TRUE)

\* a texture loader that hands out the texture it already made for a path
LoadTextureShared(g, path) ==
    (CHOOSE out \in { IF \E h \in 1..Len(c.textures) : c.textures[h].path = path
        THEN [gl |-> c, ok |-> TRUE,
              id |-> CHOOSE h \in 1..Len(c.textures) : c.textures[h].path = path]
        ELSE IF ImageKind(path) = "missing" THEN [gl |-> c, ok |-> FALSE, id |-> 0]
        ELSE IF ImageKind(path) \notin {"ImageRgb8", "ImageRgba8"}
        THEN [gl |-> GenTextures(c), ok |-> FALSE, id |-> 0]
        ELSE [gl |-> Upload(GenTextures(c), Len(c.textures) + 1, path,
                            IF ImageKind(path) = "ImageRgb8" THEN "RGB" ELSE "RGBA",
                            IF ImageKind(path) = "ImageRgb8" THEN "REPEAT"
                            ELSE "CLAMP_TO_EDGE"),
              ok |-> TRUE, id |-> Len(c.textures) + 1] :
        c \in { g } } : TRUE)

\* load_texture: the context it leaves, whether it returned (it panics on a
\* file it cannot open and on an image that is neither RGB8 nor RGBA8), and
\* the name of the texture
LoadTexture(g, path) ==
    (CHOOSE out \in { IF ImageKind(path) = "missing" THEN [gl |-> c, ok |-> FALSE, id |-> 0]
        ELSE IF ImageKind(path) \notin {"ImageRgb8", "ImageRgba8"}
        THEN [gl |-> GenTextures(c), ok |-> FALSE, id |-> 0]
        ELSE LET format == IF ImageKind(path) = "ImageRgb8" THEN "RGB" ELSE "RGBA"
                 wrap == IF format = "RGBA" THEN "CLAMP_TO_EDGE" ELSE "REPEAT"
             IN  [gl |-> Upload(GenTextures(c), Len(c.textures) + 1, path, format, wrap),
                  ok |-> TRUE, id |-> Len(c.textures) + 1] :
        c \in { g } } : TRUE)

RECURSIVE LoadFaces(_, _, _)
\* the loop of load_cubemap from path i (counted from 0) on: open, the format
\* match, glTexImage2D; st holds the context and whether the loop is running
LoadFaces(state, paths, i) ==
    (CHOOSE out \in { IF ~st.ok \/ i >= Len(paths) THEN st
        ELSE IF ImageKind(paths[i + 1]) # "ImageRgb8" THEN [st EXCEPT !.ok = FALSE]
        ELSE LoadFaces([st EXCEPT !.gl = TexImage2DFace(@, i, paths[i + 1], "RGB")],
                       paths, i + 1) :
        st \in { state } } : TRUE)

\* the glTexParameteri calls of load_cubemap
CubeParameters(g) ==
    CubeWrap(
        CubeWrap(
            CubeWrap(CubeFilter(CubeFilter(g, "MIN", "LINEAR"), "MAG", "LINEAR"),
                     "S", "CLAMP_TO_EDGE"),
            "T", "CLAMP_TO_EDGE"),
        "R", "CLAMP_TO_EDGE")

\* load_cubemap: the context it leaves, whether it returned, and the name of
\* the texture
LoadCubemap(g, paths) ==
    (CHOOSE out \in { IF ~r.ok THEN [gl |-> r.gl, ok |-> FALSE, id |-> 0]
                      ELSE [gl |-> CubeParameters(r.gl), ok |-> TRUE,
                            id |-> Len(g.textures) + 1] :
        r \in { LoadFaces([gl |-> BindTextureCubeMap(GenTextures(g), Len(g.textures) + 1),
                           ok |-> TRUE], paths, 0) } } : TRUE)

\* Texture::new
TextureNew(g, path, type_) ==
    (CHOOSE out \in { [gl |-> r.gl, ok |-> r.ok, texture |-> [id |-> r.id, type_ |-> type_]] :
        r \in { LoadTexture(g, path) } } : TRUE)

\* mem::size_of::<Vertex>(): position, normal, tex_coords, repr(C), f32
VertexSize == 3 * 4 + 3 * 4 + 2 * 4

\* a Mesh::new that asserts the size once the objects are generated
MeshNewSizedAssertsLate(g, vertex_size, verticies, indices, textures) ==
    (CHOOSE out \in { IF vertex_size # 4 * 8
        THEN [gl |-> GenBuffers(GenBuffers(GenVertexArrays(c))), ok |-> FALSE,
              mesh |-> << >>]
        ELSE LET vao == Len(c.vaos) + 1
                 vbo == Len(c.buffers) + 1
                 ebo == Len(c.buffers) + 2
                 g3 == GenBuffers(GenBuffers(GenVertexArrays(c)))
                 g4 == BufferData(BindArrayBuffer(BindVertexArray(g3, vao), vbo),
                                  "ARRAY_BUFFER", vbo, Len(verticies))
                 g5 == BufferData(BindElementBuffer(g4, ebo),
                                  "ELEMENT_ARRAY_BUFFER", ebo, Len(indices))
                 g6 == VertexAttrib(VertexAttrib(VertexAttrib(g5, 0, 3, 0), 1, 3, 3 * 4),
                                    2, 2, 6 * 4)
             IN  [gl |-> BindVertexArray(g6, 0), ok |-> TRUE,
                  mesh |-> [verticies |-> verticies, indices |-> indices,
                            textures |-> textures, vao |-> vao, vbo |-> vbo, ebo |-> ebo]] :
        c \in { g } } : TRUE)

\* the body of Mesh::new where a Vertex takes vertex_size bytes
MeshNewSized(g, vertex_size, verticies, indices, textures) ==
    (CHOOSE out \in { IF vertex_size # 4 * 8 THEN [gl |-> c, ok |-> FALSE, mesh |-> << >>]
        ELSE LET vao == Len(c.vaos) + 1
                 vbo == Len(c.buffers) + 1
                 ebo == Len(c.buffers) + 2
                 g3 == GenBuffers(GenBuffers(GenVertexArrays(c)))
                 g4 == BufferData(BindArrayBuffer(BindVertexArray(g3, vao), vbo),
                                  "ARRAY_BUFFER", vbo, Len(verticies))
                 g5 == BufferData(BindElementBuffer(g4, ebo),
                                  "ELEMENT_ARRAY_BUFFER", ebo, Len(indices))
                 g6 == VertexAttrib(VertexAttrib(VertexAttrib(g5, 0, 3, 0), 1, 3, 3 * 4),
                                    2, 2, 6 * 4)
             IN  [gl |-> BindVertexArray(g6, 0), ok |-> TRUE,
                  mesh |-> [verticies |-> verticies, indices |-> indices,
                            textures |-> textures, vao |-> vao, vbo |-> vbo, ebo |-> ebo]] :
        c \in { g } } : TRUE)

\* Mesh::new
MeshNew(g, verticies, indices, textures) ==
    MeshNewSized(g, VertexSize, verticies, indices, textures)

\* a zip that copies the position into the normal
VerticiesNormalFromPosition(mesh) ==
    [i \in 1..(Len(mesh.positions) \div 3) |->
        [position |-> << mesh.positions[3 * i - 2], mesh.positions[3 * i - 1],
                         mesh.positions[3 * i] >>,
         normal |-> << mesh.positions[3 * i - 2], mesh.positions[3 * i - 1],
                       mesh.positions[3 * i] >>,
         tex_coords |-> << mesh.texcoords[2 * i - 1], mesh.texcoords[2 * i] >>]]

\* the Vertex list load_obj zips from the arrays of a sub-mesh
Verticies(mesh) ==
    [i \in 1..(Len(mesh.positions) \div 3) |->
        [position |-> << mesh.positions[3 * i - 2], mesh.positions[3 * i - 1],
                         mesh.positions[3 * i] >>,
         normal |-> << mesh.normals[3 * i - 2], mesh.normals[3 * i - 1],
                       mesh.normals[3 * i] >>,
         tex_coords |-> << mesh.texcoords[2 * i - 1], mesh.texcoords[2 * i] >>]]

\* the indexing of that loop stays inside normals and texcoords
InBounds(mesh) ==
    LET len == Len(mesh.positions) \div 3
    IN  3 * len <= Len(mesh.normals) /\ 2 * len <= Len(mesh.texcoords)

EmptyMap == << >>

\* one `if !material.<kind>_texture.is_empty()` block of load_obj:
\* st holds the context, the loaded_textures map and the textures vector
PushTexture(state, name, file, type_) ==
    (CHOOSE out \in { IF ~st.ok \/ file = "" THEN st
        ELSE LET tex_name == WithFileName(name, file)
             IN  IF \E i \in DOMAIN st.loaded_textures : st.loaded_textures[i].key = tex_name
                 THEN LET o == CHOOSE i \in DOMAIN st.loaded_textures :
                                   st.loaded_textures[i].key = tex_name
                      IN  [st EXCEPT !.textures = Append(@, st.loaded_textures[o].value)]
                 ELSE (CHOOSE out \in { IF ~r.ok THEN [st EXCEPT !.gl = r.gl, !.ok = FALSE]
                          ELSE [st EXCEPT !.gl = r.gl,
                                          !.loaded_textures =
                                              Append(@, [key |-> tex_name,
                                                         value |-> r.texture]),
                                          !.textures = Append(@, r.texture)] :
        r \in { TextureNew(st.gl, tex_name, type_) } } : TRUE) :
        st \in { state } } : TRUE)

\* the `if let Some(material_id)` block of load_obj for one sub-mesh
PushTextures(st0, name, mesh, materials) ==
    IF mesh.material_id = NoMaterial THEN st0
    ELSE IF mesh.material_id > Len(materials) THEN [st0 EXCEPT !.ok = FALSE]
    ELSE PushTexture(
             PushTexture(st0, name, materials[mesh.material_id].diffuse_texture,
                         "Diffuse"),
             name, materials[mesh.material_id].specular_texture, "Specular")

\* the body of load_obj's loop for one sub-mesh: the context it leaves,
\* whether it got through, and the Mesh
LoadMesh(g, name, mesh, materials) ==
    IF ~InBounds(mesh) THEN [gl |-> g, ok |-> FALSE, mesh |-> << >>]
    ELSE (CHOOSE out \in { IF ~st.ok THEN [gl |-> st.gl, ok |-> FALSE, mesh |-> << >>]
                  ELSE MeshNew(st.gl, Verticies(mesh), mesh.indices, st.textures) :
        st \in { PushTextures([gl |-> g, ok |-> TRUE, loaded_textures |-> EmptyMap,
                            textures |-> << >>], name, mesh, materials) } } : TRUE)

RECURSIVE LoadMeshes(_, _, _, _, _)
\* load_obj's loop from sub-mesh k on; acc holds the context and the meshes
LoadMeshes(state, name, parsed, materials, k) ==
    (CHOOSE out \in { IF ~acc.ok \/ k > Len(parsed) THEN acc
        ELSE (CHOOSE out \in { LoadMeshes([gl |-> r.gl, ok |-> r.ok,
                             meshes |-> IF r.ok THEN Append(acc.meshes, r.mesh)
                                        ELSE acc.meshes],
                            name, parsed, materials, k + 1) :
        r \in { LoadMesh(acc.gl, name, parsed[k], materials) } } : TRUE) :
        acc \in { state } } : TRUE)

\* Model::load_obj: the context it leaves, "Ok", "Err" or "panic", and the meshes
LoadObj(g, name) ==
    IF ~Parsed(name).ok THEN [gl |-> g, outcome |-> "Err", meshes |-> << >>]
    ELSE (CHOOSE out \in { [gl |-> r.gl, outcome |-> IF r.ok THEN "Ok" ELSE "panic",
                          meshes |-> r.meshes] :
        r \in { LoadMeshes([gl |-> g, ok |-> TRUE, meshes |-> << >>], name,
                         Parsed(name).models, Parsed(name).materials, 1) } } : TRUE)

\* a name with a suffix one less than the count
UniformNameFromZero(type_, n) ==
    IF type_ = "Diffuse" THEN "material.texture_diffuse" \o ToString(n - 1)
    ELSE "material.texture_specular" \o ToString(n - 1)

\* the uniform a texture of a kind gets: format!("material.texture_<kind>{}", n)
UniformName(type_, n) ==
    IF type_ = "Diffuse" THEN "material.texture_diffuse" \o ToString(n)
    ELSE "material.texture_specular" \o ToString(n)

RECURSIVE SetTextureFrom(_, _, _, _, _, _)
\* the loop of Mesh::set_texture from texture i (counted from 0) on
SetTextureFrom(g, textures, shader, i, diffuse_num, specular_num) ==
    IF i >= Len(textures) THEN g
    ELSE LET texture == textures[i + 1]
             d == IF texture.type_ = "Diffuse" THEN diffuse_num + 1 ELSE diffuse_num
             s == IF texture.type_ = "Specular" THEN specular_num + 1 ELSE specular_num
         IN  SetTextureFrom(
                 BindTexture(SetInteger(ActiveTexture(g, i), shader,
                                        UniformName(texture.type_,
                                                    IF texture.type_ = "Diffuse"
                                                    THEN d ELSE s), i),
                             texture.id),
                 textures, shader, i + 1, d, s)

\* a set_texture that leaves the unit of the last texture active
SetTextureNoReset(g, mesh, shader) ==
    SetTextureFrom(g, mesh.textures, shader, 0, 0, 0)

\* Mesh::set_texture
SetTexture(g, mesh, shader) ==
    ActiveTexture(SetTextureFrom(g, mesh.textures, shader, 0, 0, 0), 0)

\* a draw that passes the number of vertices for the number of elements
DrawCountsVerticies(g, mesh, shader) ==
    BindVertexArray(
        DrawElements(BindVertexArray(SetTexture(g, mesh, shader), mesh.vao),
                     Len(mesh.verticies)),
        0)

\* Mesh::draw
Draw(g, mesh, shader) ==
    BindVertexArray(
        DrawElements(BindVertexArray(SetTexture(g, mesh, shader), mesh.vao),
                     Len(mesh.indices)),
        0)

\* Mesh::draw_instanced
DrawInstanced(g, mesh, shader, amount) ==
    BindVertexArray(
        DrawElementsInstanced(BindVertexArray(SetTexture(g, mesh, shader), mesh.vao),
                              Len(mesh.indices), amount),
        0)

RECURSIVE DrawFromLast(_, _, _, _)
\* a loop that draws the meshes from the last one back to mesh k
DrawFromLast(g, meshes, shader, k) ==
    IF k > Len(meshes) THEN g
    ELSE Draw(DrawFromLast(g, meshes, shader, k + 1), meshes[k], shader)

RECURSIVE DrawFrom(_, _, _, _)
\* the loop of Model::draw from mesh k on
DrawFrom(g, meshes, shader, k) ==
    IF k > Len(meshes) THEN g
    ELSE DrawFrom(Draw(g, meshes[k], shader), meshes, shader, k + 1)

----------------------------------------------------------------------------
(* Shader *)

RECURSIVE CompileStagesAll(_, _, _)
\* a creation that compiles every stage and then reports the first failure
CompileStagesAll(state, stages, k) ==
    (CHOOSE out \in { IF k > Len(stages) THEN st
        ELSE (CHOOSE out \in {
                 CompileStagesAll([gl |-> r.gl, ok |-> st.ok /\ r.ok,
                                   made |-> IF r.ok THEN Append(st.made, r.id) ELSE st.made,
                                   message |-> IF st.ok THEN r.message ELSE st.message],
                                  stages, k + 1) :
        r \in { compile_shader(st.gl, stages[k][1], stages[k][2]) } } : TRUE) :
        st \in { state } } : TRUE)

RECURSIVE CompileStages(_, _, _)
\* the `let <stage>_shader = compile_shader(ty, src)` lines of a creation from
\* stage k on; st holds the context, the shader objects the locals own, and
\* the message of the panic
CompileStages(state, stages, k) ==
    (CHOOSE out \in { IF ~st.ok \/ k > Len(stages) THEN st
        ELSE (CHOOSE out \in {
                 CompileStages([gl |-> r.gl, ok |-> r.ok,
                                made |-> IF r.ok THEN Append(st.made, r.id) ELSE st.made,
                                message |-> r.message],
                               stages, k + 1) :
        r \in { compile_shader(st.gl, stages[k][1], stages[k][2]) } } : TRUE) :
        st \in { state } } : TRUE)

RECURSIVE AttachStages(_, _, _, _)
\* the glAttachShader calls, in the order of the stages
AttachStages(g, p, made, k) ==
    IF k > Len(made) THEN g
    ELSE AttachStages(AttachShader(g, p, made[k]), p, made, k + 1)

RECURSIVE DropStages(_, _, _)
\* the drops of the DeleteShaderOnDrop locals, on return and when a panic
\* unwinds: the local declared last goes first
DropStages(g, made, k) ==
    IF k = 0 THEN g
    ELSE DropStages(DeleteShader(g, made[k]), made, k - 1)

\* the body of from_str and of with_geometry_shader for their stages: the
\* context, whether it returned, the program of the Shader, the panic message
Create(g, stages) ==
    (CHOOSE out \in {
        IF ~s.ok
        THEN [gl |-> DropStages(s.gl, s.made, Len(s.made)), ok |-> FALSE, id |-> 0,
              message |-> s.message]
        ELSE (CHOOSE out \in {
                 [gl |-> DropStages(l.gl, s.made, Len(s.made)), ok |-> l.ok,
                  id |-> IF l.ok THEN Len(s.gl.programs) + 1 ELSE 0,
                  message |-> IF l.ok THEN "" ELSE "failed to link program"] :
        l \in { link_program(AttachStages(CreateProgram(s.gl), Len(s.gl.programs) + 1,
                                          s.made, 1),
                             Len(s.gl.programs) + 1) } } : TRUE) :
        s \in { CompileStages([gl |-> g, ok |-> TRUE, made |-> << >>, message |-> ""],
                              stages, 1) } } : TRUE)

\* the stages of Shader::from_str
FromStrStages(vertex, fragment) ==
    << << "VERTEX_SHADER", vertex >>, << "FRAGMENT_SHADER", fragment >> >>

\* the stages of Shader::with_geometry_shader
WithGeometryStages(vertex, geometry, fragment) ==
    << << "VERTEX_SHADER", vertex >>, << "GEOMETRY_SHADER", geometry >>,
       << "FRAGMENT_SHADER", fragment >> >>

\* Shader::from_str
FromStr(g, vertex, fragment) == Create(g, FromStrStages(vertex, fragment))

\* Shader::with_geometry_shader
WithGeometryShader(g, vertex, geometry, fragment) ==
    Create(g, WithGeometryStages(vertex, geometry, fragment))

----------------------------------------------------------------------------
(* The library calls of a program that loads and draws models *)

\* texture kinds of the meshes a program builds with Texture::new and Mesh::new
KindLists == { << "Diffuse", "Diffuse", "Specular" >>,
               << "Specular", "Diffuse", "Specular", "Diffuse" >> }

ModelInit ==
    /\ gl = GlInit
    /\ models = << >>
    /\ result = "none"
    /\ panicked = FALSE
    /\ ops = 0
    /\ call = [f |-> "none"]
    /\ returned = 0

\* bookkeeping of a library call
Made(c) ==
    /\ ~panicked
    /\ ops < MaxOps
    /\ ops' = ops + 1
    /\ call' = c

Fresh(g) == [g EXCEPT !.calls = << >>]

\* let model = Model::load_obj(name)
LoadObjCall ==
    \E name \in ObjNames :
        \E r \in { LoadObj(Fresh(gl), name) } :
            /\ gl' = r.gl
            /\ result' = r.outcome
            /\ panicked' = (r.outcome = "panic")
            /\ models' = IF r.outcome = "Ok"
                         THEN Append(models, [by |-> "load_obj", name |-> name,
                                              meshes |-> r.meshes])
                         ELSE models
            /\ returned' = 0
            /\ Made([f |-> "Model::load_obj", name |-> name])

RECURSIVE NewTextures(_, _, _, _)
\* Texture::new(path, kind) for every kind of a list
NewTextures(acc, path, kinds, k) ==
    IF k > Len(kinds) THEN acc
    ELSE (CHOOSE out \in { NewTextures([gl |-> r.gl, textures |-> Append(acc.textures, r.texture)],
                         path, kinds, k + 1) :
        r \in { TextureNew(acc.gl, path, kinds[k]) } } : TRUE)

\* a mesh the program builds itself: Texture::new for each texture, Mesh::new
MeshNewCall ==
    \E kinds \in KindLists :
        \E t \in { NewTextures([gl |-> Fresh(gl), textures |-> << >>],
                                Path("rock", "rock.png"), kinds, 1) } :
        \E r \in { MeshNew(t.gl, Verticies(Tri), Tri.indices, t.textures) } :
            /\ gl' = r.gl
            /\ models' = Append(models, [by |-> "Mesh::new", name |-> Path("", ""),
                                         meshes |-> << r.mesh >>])
            /\ UNCHANGED << result, panicked >>
            /\ returned' = 0
            /\ Made([f |-> "Mesh::new", kinds |-> kinds])

\* shader.use_program()
UseProgram ==
    \E shader \in Shaders :
        /\ gl' = Logged([Fresh(gl) EXCEPT !.program = shader], "UseProgram", << shader >>)
        /\ UNCHANGED << models, result, panicked >>
        /\ returned' = 0
        /\ Made([f |-> "Shader::use_program", shader |-> shader])

\* mesh.draw(shader)
MeshDraw ==
    \E m \in DOMAIN models, shader \in Shaders :
        \E k \in DOMAIN models[m].meshes :
            /\ gl' = Draw(Fresh(gl), models[m].meshes[k], shader)
            /\ UNCHANGED << models, result, panicked >>
            /\ returned' = 0
            /\ Made([f |-> "Mesh::draw", model |-> m, mesh |-> k, shader |-> shader])

\* mesh.draw_instanced(shader, amount)
MeshDrawInstanced ==
    \E m \in DOMAIN models, shader \in Shaders, amount \in Amounts :
        \E k \in DOMAIN models[m].meshes :
            /\ gl' = DrawInstanced(Fresh(gl), models[m].meshes[k], shader, amount)
            /\ UNCHANGED << models, result, panicked >>
            /\ returned' = 0
            /\ Made([f |-> "Mesh::draw_instanced", model |-> m, mesh |-> k,
                     shader |-> shader, amount |-> amount])

\* model.draw(shader)
ModelDraw ==
    \E m \in DOMAIN models, shader \in Shaders :
        /\ gl' = DrawFrom(Fresh(gl), models[m].meshes, shader, 1)
        /\ UNCHANGED << models, result, panicked >>
        /\ returned' = 0
        /\ Made([f |-> "Model::draw", model |-> m, shader |-> shader])

\* the vertex array of the screen quad, as frame_buffer.rs sets it up: it
\* stays bound
QuadSetup ==
    \E c \in { Fresh(gl) } :
        /\ gl' = VertexAttrib(
                     VertexAttrib(
                         BufferData(
                             BindArrayBuffer(
                                 BindVertexArray(GenBuffers(GenVertexArrays(c)),
                                                 Len(c.vaos) + 1),
                                 Len(c.buffers) + 1),
                             "ARRAY_BUFFER", Len(c.buffers) + 1, 6),
                         0, 2, 0),
                     1, 2, 2 * 4)
        /\ UNCHANGED << models, result, panicked >>
        /\ returned' = Len(c.vaos) + 1
        /\ Made([f |-> "quad_vao"])

\* the image files a program hands to load_texture
TexturePaths == { Path("rock", "rock.png"), Path("rock", "rock_spec.png"),
                  Path("suit", "gray.png"), Path("rock", "gone.png") }

\* let texture = load_texture(path)
LoadTextureCall ==
    \E path \in TexturePaths :
        \E r \in { LoadTexture(Fresh(gl), path) } :
            /\ gl' = r.gl
            /\ result' = IF r.ok THEN "Ok" ELSE "panic"
            /\ panicked' = ~r.ok
            /\ returned' = r.id
            /\ UNCHANGED models
            /\ Made([f |-> "load_texture", path |-> path])

\* the six faces of the sky box, in the order of cubemap.rs
Skybox ==
    << Path("skybox", "right.jpg"), Path("skybox", "left.jpg"), Path("skybox", "top.jpg"),
       Path("skybox", "bottom.jpg"), Path("skybox", "front.jpg"), Path("skybox", "back.jpg") >>

\* the path lists a program hands to load_cubemap: the sky box, the sky box
\* in another order, without its last face, with a seventh path, with a face
\* that has an alpha channel, with a face that is not on disk
CubemapPaths ==
    { Skybox,
      [i \in 1..6 |-> Skybox[7 - i]],
      SubSeq(Skybox, 1, 5),
      Skybox \o << Path("skybox", "right.jpg") >>,
      [Skybox EXCEPT ![3] = Path("rock", "rock_spec.png")],
      [Skybox EXCEPT ![6] = Path("skybox", "gone.jpg")] }

\* let texture = load_cubemap(&paths)
LoadCubemapCall ==
    \E paths \in CubemapPaths :
        \E r \in { LoadCubemap(Fresh(gl), paths) } :
            /\ gl' = r.gl
            /\ result' = IF r.ok THEN "Ok" ELSE "panic"
            /\ panicked' = ~r.ok
            /\ returned' = r.id
            /\ UNCHANGED models
            /\ Made([f |-> "load_cubemap", paths |-> paths])

\* library calls of one run of a program that makes and sets up its shaders
MaxCalls == 2

\* source texts: one that compiles and links, one that does not compile, one
\* that compiles and does not link with the others
Sources == { "good", "bad", "unmatched" }

\* let shader = Shader::from_str(vertex, fragment)
ShaderFromStr ==
    \E vertex \in { "good", "bad" }, fragment \in Sources :
        \E r \in { FromStr(Fresh(gl), vertex, fragment) } :
            /\ ops < MaxCalls
            /\ gl' = r.gl
            /\ result' = IF r.ok THEN "Ok" ELSE r.message
            /\ panicked' = ~r.ok
            /\ returned' = r.id
            /\ UNCHANGED models
            /\ Made([f |-> "Shader::from_str", stages |-> FromStrStages(vertex, fragment)])

\* let shader = Shader::with_geometry_shader(vertex, geometry, fragment)
ShaderWithGeometryShader ==
    \E vertex \in { "good", "bad" }, geometry \in { "good", "bad" }, fragment \in Sources :
        \E r \in { WithGeometryShader(Fresh(gl), vertex, geometry, fragment) } :
            /\ ops < MaxCalls
            /\ gl' = r.gl
            /\ result' = IF r.ok THEN "Ok" ELSE r.message
            /\ panicked' = ~r.ok
            /\ returned' = r.id
            /\ UNCHANGED models
            /\ Made([f |-> "Shader::with_geometry_shader",
                     stages |-> WithGeometryStages(vertex, geometry, fragment)])

\* the uniform and block names a program hands to the setters
UniformNames == { "model", "material.texture_diffuse1" }
BlockNames == { "Matrices", "Lights" }

\* bookkeeping of a setter call
Set(f, shader, name) ==
    /\ ops < MaxCalls
    /\ UNCHANGED << models, result, panicked >>
    /\ returned' = 0
    /\ Made([f |-> f, shader |-> shader, name |-> name])

\* shader.set_float(name, 1.0)
SetFloatCall ==
    \E shader \in Shaders, name \in UniformNames :
        /\ gl' = SetFloat(Fresh(gl), shader, name, 1)
        /\ Set("Shader::set_float", shader, name)

\* shader.set_integer(name, 1)
SetIntegerCall ==
    \E shader \in Shaders, name \in UniformNames :
        /\ gl' = SetInteger(Fresh(gl), shader, name, 1)
        /\ Set("Shader::set_integer", shader, name)

\* shader.set_matrix4(name, &view)
SetMatrix4Call ==
    \E shader \in Shaders, name \in UniformNames :
        /\ gl' = SetMatrix4(Fresh(gl), shader, name, "view")
        /\ Set("Shader::set_matrix4", shader, name)

\* shader.set_vec2(name, 1.0, 2.0)
SetVec2Call ==
    \E shader \in Shaders, name \in UniformNames :
        /\ gl' = SetVec2(Fresh(gl), shader, name, 1, 2)
        /\ Set("Shader::set_vec2", shader, name)

\* shader.set_vec3(name, 1.0, 2.0, 3.0)
SetVec3Call ==
    \E shader \in Shaders, name \in UniformNames :
        /\ gl' = SetVec3(Fresh(gl), shader, name, 1, 2, 3)
        /\ Set("Shader::set_vec3", shader, name)

\* shader.bind_uniform_block(name, 1)
BindUniformBlockCall ==
    \E shader \in Shaders, name \in BlockNames :
        /\ gl' = BindUniformBlock(Fresh(gl), shader, name, 1)
        /\ Set("Shader::bind_uniform_block", shader, name)

\* the camera of a program that is loading and drawing: as constructed
CameraParked ==
    /\ New(<< 0, 0, 3 * PosScale >>, << 0, 0, -DirScale >>, Deg(45), NewYaw, Deg(0), 1333)
    /\ steps = 0
    /\ op = "new"
    /\ event = [type |-> "none"]
    /\ before = [type |-> "none"]
    /\ created = [fov |-> fov, pitch |-> pitch]
    /\ cursor = NoCursor

----------------------------------------------------------------------------
(* The render loop of the examples *)

VARIABLES
    example,       \* the example that is running
    locals,        \* the vertex arrays and textures its main made before the loop
    pc,            \* where main is in the loop
    queue,         \* the window events received and not yet handled
    should_close,  \* the close flag of the window
    frames,        \* frames presented so far
    \* the run, as an observer sees it
    delivered,     \* events the window system has delivered so far
    trace,         \* the steps of the iteration in progress
    escaped,       \* frames presented when an Escape press was first handled; -1 before
    requested,     \* the window system has asked the window to close
    flushed,       \* the queue as the iteration in progress found it
    entry          \* the GL state the latest frame was entered with

loopVars == << example, locals, pc, queue, should_close, frames, delivered, trace,
               escaped, requested, flushed, entry >>

\* iterations of the loop, and window events, of one run
MaxFrames == 2
MaxEvents == 2

Examples == { "asteroid", "normal", "stencil", "cubemap", "camera_walk" }

\* the programs of the Shader values of the examples
planet_shader == 3
rock_shader == 4
model_shader == 3
normal_shader == 5
border_shader == 5
skybox_shader == 7
shader_program(ex) == IF ex = "stencil" THEN 8 ELSE 6

\* model_matrices.len() of asteroid.rs
LEN == 100000

\* Key::Escape and Action::Press, Action::Release
KeyEscape == 256
Release == 0
Press == 1

\* the events the window system delivers to a loop
LoopEvents ==
    { [type |-> "CursorPos", x |-> 500, y |-> 0],
      [type |-> "CursorPos", x |-> 500, y |-> 1000],
      [type |-> "Scroll", x |-> 0, y |-> 20],
      [type |-> "Key", x |-> KeyEscape, y |-> Press],
      [type |-> "FramebufferSize", x |-> 800, y |-> 600] }

LoopKeys == { {}, {"W"} }

\* WindowEvent::Key(Key::Escape, _, Action::Press, _)
EscapePress(e) == e.type = "Key" /\ e.x = KeyEscape /\ e.y = Press

\* FPSCamera::view: look_at_dir(position, direction, up)
View == << "look_at_dir", position, direction, Up >>

\* FPSCamera::projection: perspective(fov, ratio, 0.1, 100.0)
Projection == << "perspective", fov, ratio >>

\* the view of the skybox: the view without its translation
SkyboxView == << "look_at_dir", << 0, 0, 0 >>, direction, Up >>

\* the state a frame is entered with, as far as the draw calls depend on it
Flags(g) ==
    [program |-> g.program, depth_test |-> g.depth_test, depth_func |-> g.depth_func,
     stencil_func |-> g.stencil_func, stencil_mask |-> g.stencil_mask]

\* one statement of a frame on the context: a call of the library or of gl
Exec(g, ms, c) ==
    (CHOOSE out \in {
      CASE s[1] = "Clear" -> Clear(g, s[2])
      [] s[1] = "use_program" -> UseProgramId(g, s[2])
      [] s[1] = "set_matrix4" -> SetMatrix4(g, s[2], s[3], s[4])
      [] s[1] = "set_vec3" -> SetVec3(g, s[2], s[3], s[4][1], s[4][2], s[4][3])
      [] s[1] = "set_float" -> SetFloat(g, s[2], s[3], s[4])
      [] s[1] = "set_integer" -> SetInteger(g, s[2], s[3], s[4])
      [] s[1] = "Model::draw" -> DrawFrom(g, ms[s[2]].meshes, s[3], 1)
      [] s[1] = "Mesh::draw_instanced" -> DrawInstanced(g, ms[s[2]].meshes[s[3]], s[4], s[5])
      [] s[1] = "StencilFunc" -> StencilFunc(g, s[2], s[3], s[4])
      [] s[1] = "StencilMask" -> StencilMask(g, s[2])
      [] s[1] = "StencilOp" -> StencilOp(g, s[2], s[3], s[4])
      [] s[1] = "Enable" -> Enable(g, s[2])
      [] s[1] = "Disable" -> Disable(g, s[2])
      [] s[1] = "DepthFunc" -> DepthFunc(g, s[2])
      [] s[1] = "BindVertexArray" -> BindVertexArray(g, s[2])
      [] s[1] = "ActiveTexture" -> ActiveTexture(g, s[2])
      [] s[1] = "BindTexture" -> BindTexture(g, s[2])
      [] s[1] = "BindTextureCubeMap" -> BindTextureCubeMap(g, s[2])
      [] s[1] = "DrawArrays" -> DrawArrays(g, s[2], s[3])
      [] s[1] = "GenVertexArrays" -> GenVertexArrays(g)
      [] s[1] = "GenBuffers" -> GenBuffers(g)
      [] s[1] = "BindBuffer" -> BindArrayBuffer(g, s[2])
      [] s[1] = "BufferData" -> BufferData(g, "ARRAY_BUFFER", s[2], s[3])
      [] s[1] = "VertexAttrib" -> VertexAttrib(g, s[2], s[3], s[4])
      [] s[1] = "GenTextures" -> GenTextures(g)
      [] s[1] = "TexWrap" -> TexWrap(g, s[2], s[3])
      [] s[1] = "TexFilter" -> TexFilter(g, s[2], s[3])
      [] s[1] = "TexImage2D" -> TexImage2D(g, s[2], s[3])
      [] s[1] = "GenerateMipmap" -> GenerateMipmap(g) :
        s \in { c } } : TRUE)

RECURSIVE RunRange(_, _, _, _, _)
\* statements lo to hi of a block, one after another
RunRange(g, ms, block, lo, hi) ==
    (CHOOSE out \in {
        IF r[2] > r[3] THEN r[1]
        ELSE IF r[2] = r[3] THEN Exec(r[1], ms, block[r[2]])
        ELSE RunRange(RunRange(r[1], ms, block, r[2], r[4]), ms, block, r[4] + 1, r[3]) :
        r \in { << g, lo, hi, (lo + hi) \div 2 >> } } : TRUE)

\* the statements of a block, one after another
Run(g, ms, block) ==
    (CHOOSE out \in { RunRange(g, ms, b, 1, Len(b)) : b \in { block } } : TRUE)

\* the light uniforms stencil.rs sets with set_float
LightFloats ==
    { "material.shininess", "spotLight.cutOff", "spotLight.outerCutOff" }
        \cup { "pointLights[" \o d \o "]." \o f :
                 d \in { "0", "1", "2", "3" }, f \in { "constant", "linear", "quadratic" } }

\* stencil.rs, the set_vec3 and set_float calls of the lights: set_float for
\* the scalars, set_vec3 for the others; the spot light is given the camera's
\* position and direction, the other values are constants
Lights ==
    [k \in 1..Len(LightUniforms) |->
        IF LightUniforms[k] \in LightFloats
        THEN << "set_float", shader_program("stencil"), LightUniforms[k], 1 >>
        ELSE << "set_vec3", shader_program("stencil"), LightUniforms[k],
                IF LightUniforms[k] \in { "cameraPos", "spotLight.position" } THEN position
                ELSE IF LightUniforms[k] = "spotLight.direction" THEN direction
                ELSE << 1, 1, 1 >> >>]

\* a loaded model, as the examples hold it
Model(name, meshes) == [by |-> "load_obj", name |-> name, meshes |-> meshes]

NoLocals == [vaos |-> << >>, textures |-> << >>]

\* a vertex array with its buffer and attributes, as the examples make them
MakeVao(g, len, attribs) ==
    (CHOOSE out \in {
        Run(c, << >>,
            << << "GenVertexArrays" >>, << "GenBuffers" >>,
               << "BindVertexArray", Len(c.vaos) + 1 >>,
               << "BindBuffer", Len(c.buffers) + 1 >>,
               << "BufferData", Len(c.buffers) + 1, len >> >>
            \o [k \in 1..Len(attribs) |->
                   << "VertexAttrib", k - 1, attribs[k][1], attribs[k][2] >>]
            \o << << "BindVertexArray", 0 >> >>) :
        c \in { g } } : TRUE)

\* a texture made by hand, as camera_walk.rs makes its two
MakeTexture(g, path, format) ==
    (CHOOSE out \in {
        Run(c, << >>,
            << << "GenTextures" >>, << "BindTexture", Len(c.textures) + 1 >>,
               << "TexWrap", "S", "REPEAT" >>, << "TexWrap", "T", "REPEAT" >>,
               << "TexFilter", "MIN", "LINEAR" >>, << "TexFilter", "MAG", "LINEAR" >>,
               << "TexImage2D", path, format >>, << "GenerateMipmap" >> >>) :
        c \in { g } } : TRUE)

\* asteroid.rs, main up to the loop: the two models and the depth test (the
\* buffer of instance matrices, which adds attributes 3 to 6 to the vertex
\* arrays of the rock, is left out)
AsteroidSetup ==
    LET p == LoadObj(GlInit, Path("planet", "planet.obj"))
        r == LoadObj(p.gl, Path("rock", "rock.obj"))
    IN  [gl |-> Enable(r.gl, "DEPTH_TEST"),
         models |-> << Model(Path("planet", "planet.obj"), p.meshes),
                       Model(Path("rock", "rock.obj"), r.meshes) >>,
         locals |-> NoLocals]

\* normal.rs, main up to the loop
NormalSetup ==
    LET r == LoadObj(GlInit, Path("nanosuit", "nanosuit.obj"))
    IN  [gl |-> Enable(r.gl, "DEPTH_TEST"),
         models |-> << Model(Path("nanosuit", "nanosuit.obj"), r.meshes) >>,
         locals |-> NoLocals]

\* a setup of stencil.rs that leaves the depth test off
StencilSetupNoDepthTest ==
    LET r == LoadObj(GlInit, Path("nanosuit", "nanosuit.obj"))
    IN  [gl |-> Run(r.gl, << >>,
                    << << "Enable", "STENCIL_TEST" >>,
                       << "StencilOp", "KEEP", "KEEP", "REPLACE" >> >>),
         models |-> << Model(Path("nanosuit", "nanosuit.obj"), r.meshes) >>,
         locals |-> NoLocals]

\* stencil.rs, main up to the loop
StencilSetup ==
    LET r == LoadObj(GlInit, Path("nanosuit", "nanosuit.obj"))
    IN  [gl |-> Run(r.gl, << >>,
                    << << "Enable", "DEPTH_TEST" >>, << "Enable", "STENCIL_TEST" >>,
                       << "StencilOp", "KEEP", "KEEP", "REPLACE" >> >>),
         models |-> << Model(Path("nanosuit", "nanosuit.obj"), r.meshes) >>,
         locals |-> NoLocals]

\* cubemap.rs, main up to the loop: the sampler of the scene shader, the three
\* vertex arrays (cube, plane, skybox), the two textures and the cube map, the
\* depth test
CubemapSetup ==
    LET sampler == Run(GlInit, << >>,
                       << << "use_program", shader_program("cubemap") >>,
                          << "set_integer", shader_program("cubemap"), "texture1", 0 >> >>)
        cube_vao == MakeVao(sampler, 36, << << 3, 0 >>, << 2, 3 * 4 >> >>)
        plane_vao == MakeVao(cube_vao, 6, << << 3, 0 >>, << 2, 3 * 4 >> >>)
        skybox_vao == MakeVao(plane_vao, 36, << << 3, 0 >> >>)
        cube_texture == LoadTexture(skybox_vao, Path("examples", "marble.jpg"))
        floor_texture == LoadTexture(cube_texture.gl, Path("examples", "metal.png"))
        cubemap_texture == LoadCubemap(floor_texture.gl, Skybox)
    IN  [gl |-> Enable(cubemap_texture.gl, "DEPTH_TEST"),
         models |-> << >>,
         locals |-> [vaos |-> << Len(cube_vao.vaos), Len(plane_vao.vaos),
                                 Len(skybox_vao.vaos) >>,
                     textures |-> << cube_texture.id, floor_texture.id,
                                     cubemap_texture.id >>]]

\* camera_walk.rs, main up to the loop: the shader's vertex array, the two
\* textures, the depth test
CameraWalkSetup ==
    LET vao == MakeVao(GlInit, 36, << << 3, 0 >>, << 2, 3 * 4 >> >>)
        tex1 == MakeTexture(vao, Path("examples", "wall.jpg"), "RGB")
        tex2 == MakeTexture(tex1, Path("examples", "awesomeface.png"), "RGBA")
    IN  [gl |-> Enable(tex2, "DEPTH_TEST"),
         models |-> << >>,
         locals |-> [vaos |-> << Len(vao.vaos) >>,
                     textures |-> << Len(tex1.textures), Len(tex2.textures) >>]]

Setup(ex) ==
    CASE ex = "asteroid" -> AsteroidSetup
      [] ex = "normal" -> NormalSetup
      [] ex = "stencil" -> StencilSetup
      [] ex = "cubemap" -> CubemapSetup
      [] ex = "camera_walk" -> CameraWalkSetup

\* asteroid.rs, the unsafe block of an iteration
AsteroidFrame ==
    << << "Clear", "COLOR|DEPTH" >>,
       << "use_program", planet_shader >>,
       << "set_matrix4", planet_shader, "model", << "from_scale", 4 >> >>,
       << "set_matrix4", planet_shader, "projection", Projection >>,
       << "set_matrix4", planet_shader, "view", View >>,
       << "Model::draw", 1, planet_shader >>,
       << "set_matrix4", rock_shader, "projection", Projection >>,
       << "set_matrix4", rock_shader, "view", View >> >>
    \o [k \in 1..Len(models[2].meshes) |->
           << "Mesh::draw_instanced", 2, k, rock_shader, LEN >>]

\* normal.rs, the unsafe block of an iteration
NormalFrame ==
    << << "Clear", "COLOR|DEPTH" >>,
       << "use_program", model_shader >>,
       << "set_matrix4", model_shader, "model", << "identity" >> >>,
       << "set_matrix4", model_shader, "view", View >>,
       << "set_matrix4", model_shader, "projection", Projection >>,
       << "Model::draw", 1, model_shader >>,
       << "use_program", normal_shader >>,
       << "set_matrix4", normal_shader, "model", << "identity" >> >>,
       << "set_matrix4", normal_shader, "view", View >>,
       << "set_matrix4", normal_shader, "projection", Projection >>,
       << "Model::draw", 1, normal_shader >> >>

\* stencil.rs, the unsafe block of an iteration
StencilFrame ==
    << << "Clear", "COLOR|DEPTH|STENCIL" >>,
       << "use_program", shader_program("stencil") >> >>
    \o Lights
    \o << << "set_matrix4", shader_program("stencil"), "model", << "identity" >> >>,
          << "set_matrix4", shader_program("stencil"), "view", View >>,
          << "set_matrix4", shader_program("stencil"), "projection", Projection >>,
          << "StencilFunc", "ALWAYS", 1, StencilBits >>,
          << "StencilMask", StencilBits >>,
          << "Model::draw", 1, shader_program("stencil") >>,
          << "StencilFunc", "NOTEQUAL", 1, StencilBits >>,
          << "StencilMask", 0 >>,
          << "Disable", "DEPTH_TEST" >>,
          << "use_program", border_shader >>,
          << "set_matrix4", border_shader, "model", << "from_scale", 101 >> >>,
          << "set_matrix4", border_shader, "view", View >>,
          << "set_matrix4", border_shader, "projection", Projection >>,
          << "Model::draw", 1, border_shader >>,
          << "StencilMask", StencilBits >>,
          << "Enable", "DEPTH_TEST" >> >>

\* cubemap.rs, the unsafe block of an iteration: the two cubes, the floor, the
\* skybox
CubemapFrame ==
    << << "Clear", "COLOR|DEPTH" >>,
       << "use_program", shader_program("cubemap") >>,
       << "set_matrix4", shader_program("cubemap"), "view", View >>,
       << "set_matrix4", shader_program("cubemap"), "projection", Projection >>,
       << "BindVertexArray", locals.vaos[1] >>,
       << "ActiveTexture", 0 >>,
       << "BindTexture", locals.textures[1] >>,
       << "set_matrix4", shader_program("cubemap"), "model", << "from_translation", 1 >> >>,
       << "DrawArrays", 0, 36 >>,
       << "set_matrix4", shader_program("cubemap"), "model", << "from_translation", 2 >> >>,
       << "DrawArrays", 0, 36 >>,
       << "BindVertexArray", locals.vaos[2] >>,
       << "BindTexture", locals.textures[2] >>,
       << "set_matrix4", shader_program("cubemap"), "model", << "identity" >> >>,
       << "DrawArrays", 0, 6 >>,
       << "DepthFunc", "LEQUAL" >>,
       << "use_program", skybox_shader >>,
       << "set_matrix4", skybox_shader, "view", SkyboxView >>,
       << "set_matrix4", skybox_shader, "projection", Projection >>,
       << "BindVertexArray", locals.vaos[3] >>,
       << "ActiveTexture", 0 >>,
       << "BindTextureCubeMap", locals.textures[3] >>,
       << "DrawArrays", 0, 36 >> >>

\* the cubes of camera_walk.rs
Positions == 10

\* camera_walk.rs, the unsafe block of an iteration
CameraWalkFrame ==
    << << "Clear", "COLOR|DEPTH" >>,
       << "use_program", shader_program("camera_walk") >>,
       << "set_integer", shader_program("camera_walk"), "texture1", 0 >>,
       << "set_integer", shader_program("camera_walk"), "texture2", 1 >>,
       << "set_matrix4", shader_program("camera_walk"), "view", View >>,
       << "set_matrix4", shader_program("camera_walk"), "projection", Projection >>,
       << "ActiveTexture", 0 >>,
       << "BindTexture", locals.textures[1] >>,
       << "ActiveTexture", 1 >>,
       << "BindTexture", locals.textures[2] >>,
       << "BindVertexArray", locals.vaos[1] >> >>
    \o [k \in 1..(2 * Positions) |->
           IF k % 2 = 1
           THEN << "set_matrix4", shader_program("camera_walk"), "model",
                   << "from_translation", (k + 1) \div 2 >> >>
           ELSE << "DrawArrays", 0, 36 >>]

\* the unsafe block of an iteration of the example
Frame ==
    CASE example = "asteroid" -> AsteroidFrame
      [] example = "normal" -> NormalFrame
      [] example = "stencil" -> StencilFrame
      [] example = "cubemap" -> CubemapFrame
      [] example = "camera_walk" -> CameraWalkFrame

\* the window events the window system may deliver in one poll_events
Deliverable ==
    UNION { [1..n -> LoopEvents] :
              n \in 0..(IF frames < MaxFrames THEN MaxEvents - delivered ELSE 0) }

NoEvent == [type |-> "none", x |-> 0, y |-> 0]

\* a step of the iteration, as the observer notes it
Noted(step, e) == trace' = Append(trace, [step |-> step, event |-> e])

\* the state of a program that runs no loop
LoopParked ==
    /\ example = "none"
    /\ locals = NoLocals
    /\ pc = "none"
    /\ queue = << >>
    /\ should_close = FALSE
    /\ frames = 0
    /\ delivered = 0
    /\ trace = << >>
    /\ flushed = << >>
    /\ escaped = -1
    /\ requested = FALSE
    /\ entry = Flags(GlInit)

\* main of an example, up to its loop
LoopInit ==
    /\ CameraParked
    /\ example \in Examples
    /\ gl = Fresh(Setup(example).gl)
    /\ models = Setup(example).models
    /\ locals = Setup(example).locals
    /\ result = "none"
    /\ panicked = FALSE
    /\ ops = 0
    /\ call = [f |-> "none"]
    /\ returned = 0
    /\ pc = "while"
    /\ queue = << >>
    /\ should_close = FALSE
    /\ frames = 0
    /\ delivered = 0
    /\ trace = << >>
    /\ flushed = << >>
    /\ escaped = -1
    /\ requested = FALSE
    /\ entry = Flags(gl)

\* a loop head that does not look at the close flag
WhileIgnoresClose ==
    /\ pc = "while"
    /\ frames < MaxFrames
    /\ pc' = "events"
    /\ trace' = << >>
    /\ flushed' = queue
    /\ UNCHANGED << example, locals, queue, should_close, frames, delivered, escaped,
                    requested, entry >>
    /\ UNCHANGED << camVars, modelVars >>

\* while !window.should_close(), and the flush_messages that opens the body
While ==
    /\ pc = "while"
    /\ IF should_close
       THEN pc' = "exit" /\ UNCHANGED << trace, flushed >>
       ELSE /\ frames < MaxFrames
            /\ pc' = "events"
            /\ trace' = << >>
            /\ flushed' = queue
    /\ UNCHANGED << example, locals, queue, should_close, frames, delivered, escaped,
                    requested, entry >>
    /\ UNCHANGED << camVars, modelVars >>

\* a loop that handles the newest pending event first
HandleEventNewestFirst ==
    /\ pc = "events"
    /\ queue # << >>
    /\ \E e \in { queue[Len(queue)] } :
          /\ gl' = IF e.type = "FramebufferSize" THEN Viewport(Fresh(gl), 0, 0, e.x, e.y)
                   ELSE gl
          /\ call' = IF e.type = "FramebufferSize" THEN [f |-> "Viewport"] ELSE call
          /\ should_close' = (should_close \/ EscapePress(e))
          /\ escaped' = IF EscapePress(e) /\ escaped = -1 THEN frames ELSE escaped
          /\ Dispatch(e)
          /\ Noted("event", e)
    /\ queue' = SubSeq(queue, 1, Len(queue) - 1)
    /\ UNCHANGED << example, locals, pc, frames, delivered, flushed, requested, entry >>
    /\ UNCHANGED << models, result, panicked, ops, returned >>

\* the body of `for (_, event) in glfw::flush_messages(&events)` for the next
\* event: the match of main, then camera.process_event(&event)
HandleEvent ==
    /\ pc = "events"
    /\ queue # << >>
    /\ \E e \in { Head(queue) } :
          /\ gl' = IF e.type = "FramebufferSize" THEN Viewport(Fresh(gl), 0, 0, e.x, e.y)
                   ELSE gl
          /\ call' = IF e.type = "FramebufferSize" THEN [f |-> "Viewport"] ELSE call
          /\ should_close' = (should_close \/ EscapePress(e))
          /\ escaped' = IF EscapePress(e) /\ escaped = -1 THEN frames ELSE escaped
          /\ Dispatch(e)
          /\ Noted("event", e)
    /\ queue' = Tail(queue)
    /\ UNCHANGED << example, locals, pc, frames, delivered, flushed, requested, entry >>
    /\ UNCHANGED << models, result, panicked, ops, returned >>

\* the end of the for loop, and camera.process_mouse(&window, delta_time)
PollKeys ==
    /\ pc = "events"
    /\ queue = << >>
    /\ \E keys \in LoopKeys, dt \in DeltaTimes : Poll(keys, dt)
    /\ pc' = "draw"
    /\ Noted("process_mouse", NoEvent)
    /\ UNCHANGED << example, locals, queue, should_close, frames, delivered, flushed,
                    escaped, requested, entry >>
    /\ UNCHANGED modelVars

\* the unsafe block of the iteration: the clear and the draw calls
DrawFrame ==
    /\ pc = "draw"
    /\ gl' = Run(Fresh(gl), models, Frame)
    /\ call' = [f |-> "frame"]
    /\ entry' = Flags(gl)
    /\ pc' = "swap_buffers"
    /\ Noted("draw", NoEvent)
    /\ UNCHANGED << example, locals, queue, should_close, frames, delivered, flushed,
                    escaped, requested >>
    /\ UNCHANGED << models, result, panicked, ops, returned >>
    /\ UNCHANGED camVars

\* window.swap_buffers()
SwapBuffers ==
    /\ pc = "swap_buffers"
    /\ frames' = frames + 1
    /\ pc' = "poll_events"
    /\ Noted("swap_buffers", NoEvent)
    /\ UNCHANGED << example, locals, queue, should_close, delivered, flushed, escaped,
                    requested, entry >>
    /\ UNCHANGED << camVars, modelVars >>

\* glfw.poll_events(): the window system hands over the events that have
\* occurred, and sets the close flag when the user has asked to close the window
PollEvents ==
    /\ pc = "poll_events"
    /\ \E received \in Deliverable, close \in BOOLEAN :
          /\ queue' = queue \o received
          /\ delivered' = delivered + Len(received)
          /\ should_close' = (should_close \/ close)
          /\ requested' = (requested \/ close)
    /\ pc' = "while"
    /\ Noted("poll_events", NoEvent)
    /\ UNCHANGED << example, locals, frames, flushed, escaped, entry >>
    /\ UNCHANGED << camVars, modelVars >>


vars == << camVars, modelVars, loopVars >>

\* a program that drives its camera
Init == CameraInit /\ ModelInit /\ LoopParked

Next ==
    \/ ProcessEvent /\ UNCHANGED << modelVars, loopVars >>
    \/ ProcessMouse /\ UNCHANGED << modelVars, loopVars >>

Spec == Init /\ [][Next]_vars

\* a program that loads and draws models
ModelSpecInit == CameraParked /\ ModelInit /\ LoopParked

ModelNext ==
    \/ LoadObjCall /\ UNCHANGED << camVars, loopVars >>
    \/ MeshNewCall /\ UNCHANGED << camVars, loopVars >>
    \/ UseProgram /\ UNCHANGED << camVars, loopVars >>
    \/ MeshDraw /\ UNCHANGED << camVars, loopVars >>
    \/ MeshDrawInstanced /\ UNCHANGED << camVars, loopVars >>
    \/ ModelDraw /\ UNCHANGED << camVars, loopVars >>
    \/ QuadSetup /\ UNCHANGED << camVars, loopVars >>

ModelSpec == ModelSpecInit /\ [][ModelNext]_vars

\* a program that loads its textures itself
TextureNext ==
    \/ LoadTextureCall /\ UNCHANGED << camVars, loopVars >>
    \/ LoadCubemapCall /\ UNCHANGED << camVars, loopVars >>

TextureSpec == ModelSpecInit /\ [][TextureNext]_vars

\* a program that makes its shaders and sets their uniforms
ShaderNext ==
    \/ ShaderFromStr /\ UNCHANGED << camVars, loopVars >>
    \/ ShaderWithGeometryShader /\ UNCHANGED << camVars, loopVars >>
    \/ (ops < MaxCalls /\ UseProgram) /\ UNCHANGED << camVars, loopVars >>
    \/ SetFloatCall /\ UNCHANGED << camVars, loopVars >>
    \/ SetIntegerCall /\ UNCHANGED << camVars, loopVars >>
    \/ SetMatrix4Call /\ UNCHANGED << camVars, loopVars >>
    \/ SetVec2Call /\ UNCHANGED << camVars, loopVars >>
    \/ SetVec3Call /\ UNCHANGED << camVars, loopVars >>
    \/ BindUniformBlockCall /\ UNCHANGED << camVars, loopVars >>

ShaderSpec == ModelSpecInit /\ [][ShaderNext]_vars

\* an example in its render loop
LoopNext ==
    \/ While
    \/ HandleEvent
    \/ PollKeys
    \/ DrawFrame
    \/ SwapBuffers
    \/ PollEvents

LoopSpec == LoopInit /\ [][LoopNext]_vars

\* the loop, as a sequential program that takes its next step
LoopFairSpec == LoopSpec /\ WF_vars(LoopNext)

----------------------------------------------------------------------------
(* Properties of FPSCamera *)

InPitchRange(p) == PitchMin <= p /\ p <= PitchMax
InFovRange(f) == FovMin <= f /\ f <= FovMax

\* a component may be off by this much (4 parts in 10000)
Tolerance == DirScale \div 2500

\* C1: after every applied cursor-move update the pitch lies in [-89, 89],
\* whatever the pitch, the yaw and the cursor delta were.
C1_MovePitchClamped == op = "move" => InPitchRange(pitch)

\* a cursor move from a pitch outside the range whose delta alone would not
\* have brought it back
C1_Witness ==
    /\ op = "move"
    /\ before.pitch = Deg(100)
    /\ before.last_y = event.y
    /\ pitch = PitchMax

\* C2 as stated: in every reachable state, from construction onward, pitch is
\* within [-89, 89] and fov within [1, 45].
C2_AlwaysInRange == InPitchRange(pitch) /\ InFovRange(fov)

\* C2 amended: a camera constructed with pitch in [-89, 89] has it there in
\* every state, and one constructed with fov in [1, 45] has it there in every
\* state; a camera constructed outside has its pitch in the range from the
\* first applied cursor move on and its fov from the first Scroll event on (no
\* handler takes either out of its range again).
C2_InRangeOnceEstablished ==
    /\ [](/\ InPitchRange(created.pitch) => InPitchRange(pitch)
          /\ InFovRange(created.fov) => InFovRange(fov))
    /\ [][/\ op' = "move" => InPitchRange(pitch')
          /\ op' = "scroll" => InFovRange(fov')
          /\ InPitchRange(pitch) => InPitchRange(pitch')
          /\ InFovRange(fov) => InFovRange(fov')]_vars

\* a camera constructed out of range that a scroll and a cursor move have
\* brought into range, then polled
C2_Witness ==
    /\ ~InPitchRange(created.pitch)
    /\ ~InFovRange(created.fov)
    /\ InPitchRange(pitch)
    /\ InFovRange(fov)
    /\ op = "poll"

\* C3: whatever the scroll delta and the fov before, the fov a Scroll event
\* leaves is within [1, 45].
C3_ScrollFovInRange == op = "scroll" => InFovRange(fov)

\* a scroll whose delta would have taken the fov below 1
C3_Witness ==
    /\ op = "scroll"
    /\ InFovRange(before.fov)
    /\ before.fov - Deg(event.y) < FovMin
    /\ fov = FovMin

Clamp(v, lo, hi) == IF v < lo THEN lo ELSE IF v > hi THEN hi ELSE v

\* C4: a Scroll event that finds the fov outside [1, 45] does not apply its
\* delta and sets the fov to the nearest bound; one that finds it inside (bounds
\* included) subtracts the delta and clamps the result, so scrolling outward at
\* a bound stays at the bound and scrolling inward from a bound leaves it.
C4_ScrollStep ==
    op = "scroll" =>
        /\ before.fov < FovMin => fov = FovMin
        /\ before.fov > FovMax => fov = FovMax
        /\ InFovRange(before.fov) =>
              fov = Clamp(before.fov - Deg(event.y), FovMin, FovMax)
        /\ before.fov = FovMax /\ event.y <= 0 => fov = FovMax
        /\ before.fov = FovMin /\ event.y >= 0 => fov = FovMin
        /\ before.fov = FovMax /\ event.y > 0 => fov < FovMax
        /\ before.fov = FovMin /\ event.y < 0 => fov > FovMin

\* a scroll at fov 60 whose delta, had it been applied, would have given 40
C4_Witness ==
    /\ op = "scroll"
    /\ before.fov = Deg(60)
    /\ event.y = 20
    /\ fov = FovMax

\* C5: the first CursorPos event of a camera only latches the cursor position
\* and clears the first-motion flag (yaw, pitch, direction, fov and position
\* keep their values); the flag is never set again; every later CursorPos
\* event takes its delta from the position of the CursorPos event before it.
C5_LatchOnce ==
    [][/\ (event'.type = "CursorPos" /\ cursor = NoCursor) =>
              /\ op' = "latch"
              /\ << yaw', pitch', direction', fov', position' >>
                    = << yaw, pitch, direction, fov, position >>
              /\ << last_x', last_y' >> = << event'.x, event'.y >>
              /\ first_mouse /\ ~first_mouse'
       /\ ~first_mouse => ~first_mouse'
       /\ (event'.type = "CursorPos" /\ cursor # NoCursor) =>
              /\ op' = "move"
              /\ yaw' = yaw + Scaled(event'.x - cursor[1])
              /\ pitch' = Clamp(pitch + Scaled(cursor[2] - event'.y),
                                PitchMin, PitchMax)
              /\ << last_x', last_y' >> = << event'.x, event'.y >>]_vars

\* the second cursor move after the latch, at a third position
C5_Witness ==
    /\ op = "move"
    /\ before.yaw # NewYaw
    /\ << before.last_x, before.last_y >> # << event.x, event.y >>
    /\ yaw # before.yaw
    /\ ~first_mouse

\* C6: after every applied cursor move the direction is
\* (cos(pitch)cos(yaw), sin(pitch), cos(pitch)sin(yaw)) of the new yaw and the
\* clamped pitch, and has unit length (both within Tolerance).
C6_DirectionFromAngles ==
    op = "move" =>
        /\ Abs(direction[1] * DirScale - Cos(pitch) * Cos(yaw)) <= Tolerance * DirScale
        /\ Abs(direction[2] - Sin(pitch)) <= Tolerance
        /\ Abs(direction[3] * DirScale - Cos(pitch) * Sin(yaw)) <= Tolerance * DirScale
        /\ Abs(Dot(direction, direction) - DirScale * DirScale)
              <= 2 * Tolerance * DirScale

\* a cursor move that turned the camera and ran into the pitch clamp
C6_Witness ==
    /\ op = "move"
    /\ pitch = PitchMin
    /\ yaw # before.yaw
    /\ direction # before.direction

\* the sum of the steps of the keys held: W and D count +1, S and A -1
Held(keys, plus, minus) ==
    (IF plus \in keys THEN 1 ELSE 0) - (IF minus \in keys THEN 1 ELSE 0)

\* normalize(dir x (0,1,0)), the cross product written out: (-z, 0, x)
Rightward(dir) == Normalize(<< -dir[3], 0, dir[1] >>)

\* C7: the keyboard poll changes only the position: every held key adds its
\* step of 5 * delta_time along +direction (W), -direction (S),
\* +normalize(direction x up) (D), -normalize(direction x up) (A); the steps
\* add up, so that W with S, A with D, or no key leave the position where it
\* was.  Yaw, pitch, fov, direction and the cursor latch keep their values.
C7_PollMovesPosition ==
    op = "poll" =>
        /\ position =
              Add(before.position,
                  Add(Mul(before.direction, Held(event.keys, "W", "S") * 5 * event.dt),
                      Mul(Rightward(before.direction),
                          Held(event.keys, "D", "A") * 5 * event.dt)))
        /\ event.keys \in {{}, {"W", "S"}, {"A", "D"}} => position = before.position
        /\ [camera EXCEPT !.position = before.position] = before

\* a poll with W and D held, after the camera was turned
C7_Witness ==
    /\ op = "poll"
    /\ event.keys = {"W", "D"}
    /\ before.direction # << 0, 0, -DirScale >>
    /\ position # before.position

----------------------------------------------------------------------------
(* Properties of Model and Mesh *)

\* the models that Model::load_obj returned
Loaded == { m \in DOMAIN models : models[m].by = "load_obj" }

\* (mesh, position) of every texture a model holds
Slots(m) ==
    { << k, i >> \in (DOMAIN models[m].meshes) \X (1..4) :
        i <= Len(models[m].meshes[k].textures) }

TextureAt(m, slot) == models[m].meshes[slot[1]].textures[slot[2]]

\* the file a texture object was uploaded from
PathOf(id) == gl.textures[id].path

\* C8 as stated: within one load_obj call a texture is uploaded at most once
\* for a resolved path: two sub-meshes that reference the same path hold the
\* same texture handle, and no two texture objects made by the call come from
\* the same path.
C8_OneTexturePerPath ==
    call.f = "Model::load_obj" /\ result = "Ok" =>
        \A a, b \in Slots(Len(models)) :
            PathOf(TextureAt(Len(models), a).id) = PathOf(TextureAt(Len(models), b).id)
                => TextureAt(Len(models), a).id = TextureAt(Len(models), b).id

\* C9: texture deduplication is never shared between load_obj calls: the
\* textures of two models from two calls are distinct texture objects, each
\* uploaded from the path its own call resolved, also when the paths agree.
C9_NoSharingAcrossLoads ==
    \A m, n \in Loaded :
        m # n =>
            \A a \in Slots(m), b \in Slots(n) :
                /\ TextureAt(m, a).id # TextureAt(n, b).id
                /\ PathOf(TextureAt(m, a).id).dir = models[m].name.dir
                /\ gl.textures[TextureAt(m, a).id].format # "none"

\* two calls have loaded models whose textures come from one path
C9_Witness ==
    \E m, n \in Loaded :
        /\ m # n
        /\ \E a \in Slots(m), b \in Slots(n) :
              PathOf(TextureAt(m, a).id) = PathOf(TextureAt(n, b).id)

\* the mesh and the calls of the draw made last
DrawnMesh == models[call.model].meshes[call.mesh]

\* how many of the textures t_0..t_i are of the kind of t_i
KindCount(textures, i) ==
    Cardinality({ j \in 0..i : textures[j + 1].type_ = textures[i + 1].type_ })

\* the uniform of texture i: material.texture_<kind><n>
ExpectedName(textures, i) ==
    "material.texture_"
        \o (IF textures[i + 1].type_ = "Diffuse" THEN "diffuse" ELSE "specular")
        \o ToString(KindCount(textures, i))

\* the location of a uniform of a program, NotFound when it has none
LocationIn(p, name) ==
    IF \E l \in 1..Len(ProgramUniforms[p]) : ProgramUniforms[p][l] = name
    THEN (CHOOSE l \in 1..Len(ProgramUniforms[p]) : ProgramUniforms[p][l] = name) - 1
    ELSE NotFound

DrawCalls == { "DrawElements", "DrawElementsInstanced" }

\* C10: Mesh::draw and Mesh::draw_instanced bind texture t_i to unit i and set
\* the integer uniform material.texture_diffuse<n> or material.texture_specular<n>
\* to i, n being the count of textures of the kind of t_i among t_0..t_i; only
\* then is one indexed (instanced) draw call issued, its element count the
\* number of indices of the mesh.
C10_DrawBindsThenDraws ==
    call.f \in {"Mesh::draw", "Mesh::draw_instanced"} =>
        LET t == DrawnMesh.textures
            k == Len(t)
            c == gl.calls
        IN  /\ Len(c) = 4 * k + 4
            /\ \A i \in 0..(k - 1) :
                  /\ c[4 * i + 1] = << "ActiveTexture", i >>
                  /\ c[4 * i + 2] = << "GetUniformLocation", call.shader,
                                       ExpectedName(t, i) >>
                  /\ c[4 * i + 3] = << "Uniform1i",
                                       LocationIn(call.shader, ExpectedName(t, i)), i >>
                  /\ c[4 * i + 4] = << "BindTexture", t[i + 1].id >>
                  /\ gl.units[i] = t[i + 1].id
                  /\ (gl.program = call.shader
                        /\ LocationIn(call.shader, ExpectedName(t, i)) # NotFound)
                      => gl.uniforms[call.shader]
                             [LocationIn(call.shader, ExpectedName(t, i)) + 1] = i
            /\ c[4 * k + 2] = << "BindVertexArray", DrawnMesh.vao >>
            /\ c[4 * k + 3] = IF call.f = "Mesh::draw"
                              THEN << "DrawElements", Len(DrawnMesh.indices) >>
                              ELSE << "DrawElementsInstanced", Len(DrawnMesh.indices),
                                      call.amount >>
            /\ Cardinality({ j \in 1..Len(c) : c[j][1] \in DrawCalls }) = 1

\* a draw, with its shader in use, of a mesh of two diffuse textures and a
\* specular one between them
C10_Witness ==
    /\ call.f = "Mesh::draw"
    /\ Len(DrawnMesh.textures) = 4
    /\ DrawnMesh.textures[1].type_ = "Specular"
    /\ gl.program = call.shader
    /\ gl.uniforms[call.shader][LocationIn(call.shader, "material.texture_diffuse2") + 1] = 3

Draws == { "Mesh::draw", "Mesh::draw_instanced", "Model::draw" }

\* the attributes of the screen quad's vertex array
QuadAttribs == { << 0, 2, 0 >>, << 1, 2, 8 >> }

\* C11 as stated: after every Mesh::draw, Mesh::draw_instanced and Model::draw
\* call, whatever the number of textures, texture unit 0 is the active one and
\* no vertex array is bound.
C11_DrawsResetBindings == call.f \in Draws => gl.active = 0 /\ gl.vao = 0

\* C11 amended: after every Mesh::draw and Mesh::draw_instanced call, and after
\* every Model::draw call of a model that owns a mesh, texture unit 0 is the
\* active one and no vertex array is bound, whatever the number of textures; a
\* Model::draw call of a model without meshes makes no GL call (the bindings
\* stay what the caller left).
C11_DrawsOfAMeshResetBindings ==
    /\ call.f \in {"Mesh::draw", "Mesh::draw_instanced"} => gl.active = 0 /\ gl.vao = 0
    /\ call.f = "Model::draw" =>
          IF models[call.model].meshes # << >>
          THEN gl.active = 0 /\ gl.vao = 0
          ELSE gl.calls = << >>

\* a model with a mesh without textures and a mesh with two, drawn after the
\* screen quad's vertex array was left bound
C11_Witness ==
    /\ call.f = "Model::draw"
    /\ \E k \in DOMAIN models[call.model].meshes :
          Len(models[call.model].meshes[k].textures) = 0
    /\ \E k \in DOMAIN models[call.model].meshes :
          Len(models[call.model].meshes[k].textures) >= 1
    /\ gl.vaos # << >>
    /\ gl.vaos[Len(gl.vaos)].attribs = QuadAttribs
    /\ gl.vao = 0

\* where the draw calls are in a log of calls
DrawPositions(c) == { j \in 1..Len(c) : c[j][1] \in DrawCalls }

\* where the n-th draw call is
NthDraw(c, n) ==
    CHOOSE j \in DrawPositions(c) : Cardinality({ i \in DrawPositions(c) : i <= j }) = n

\* C12: Model::draw issues one draw call per owned mesh, the k-th for the k-th
\* mesh of the list (its vertex array bound, its index count passed): no mesh
\* is skipped, repeated or reordered.
C12_ModelDrawInOrder ==
    call.f = "Model::draw" =>
        /\ Cardinality(DrawPositions(gl.calls)) = Len(models[call.model].meshes)
        /\ \A k \in DOMAIN models[call.model].meshes :
              /\ gl.calls[NthDraw(gl.calls, k)]
                    = << "DrawElements", Len(models[call.model].meshes[k].indices) >>
              /\ gl.calls[NthDraw(gl.calls, k) - 1]
                    = << "BindVertexArray", models[call.model].meshes[k].vao >>

\* a model of two meshes with different index counts, drawn
C12_Witness ==
    /\ call.f = "Model::draw"
    /\ Len(models[call.model].meshes) = 2
    /\ Len(models[call.model].meshes[1].indices) # Len(models[call.model].meshes[2].indices)
    /\ Cardinality(DrawPositions(gl.calls)) = 2

\* the model the load made last returned
LastModel == models[Len(models)]

\* vertex i (counted from 0) of a parsed sub-mesh
ZippedVertex(sub, i) ==
    [position |-> << sub.positions[3 * i + 1], sub.positions[3 * i + 2],
                     sub.positions[3 * i + 3] >>,
     normal |-> << sub.normals[3 * i + 1], sub.normals[3 * i + 2], sub.normals[3 * i + 3] >>,
     tex_coords |-> << sub.texcoords[2 * i + 1], sub.texcoords[2 * i + 2] >>]

VertexCount(sub) == Len(sub.positions) \div 3

\* normals or texture coordinates of a sub-mesh do not reach its last vertex
TooShort(sub) ==
    \/ Len(sub.normals) < 3 * VertexCount(sub)
    \/ Len(sub.texcoords) < 2 * VertexCount(sub)

\* C13: Model::load_obj makes one Mesh per parsed sub-mesh, in parser order,
\* of positions.len()/3 vertices, vertex i from positions[3i..3i+2],
\* normals[3i..3i+2] and texcoords[2i..2i+1] (and the indices of the sub-mesh);
\* a sub-mesh whose normals or texcoords are too short makes the load panic (no
\* Err is returned), and entries past the last vertex are ignored.
C13_OneMeshPerSubMesh ==
    (call.f = "Model::load_obj" /\ Parsed(call.name).ok) =>
        /\ (\E k \in DOMAIN Parsed(call.name).models : TooShort(Parsed(call.name).models[k]))
              => result = "panic"
        /\ (\A k \in DOMAIN Parsed(call.name).models :
                /\ ~TooShort(Parsed(call.name).models[k])
                /\ Parsed(call.name).models[k].material_id = NoMaterial)
              => result = "Ok"
        /\ result = "Ok" =>
              /\ Len(LastModel.meshes) = Len(Parsed(call.name).models)
              /\ \A k \in DOMAIN Parsed(call.name).models :
                    /\ Len(LastModel.meshes[k].verticies)
                          = VertexCount(Parsed(call.name).models[k])
                    /\ \A i \in 0..(VertexCount(Parsed(call.name).models[k]) - 1) :
                          LastModel.meshes[k].verticies[i + 1]
                              = ZippedVertex(Parsed(call.name).models[k], i)
                    /\ LastModel.meshes[k].indices = Parsed(call.name).models[k].indices

\* a load of a file whose normals and texture coordinates run past the last
\* vertex
C13_Witness ==
    /\ call.f = "Model::load_obj"
    /\ result = "Ok"
    /\ \E k \in DOMAIN Parsed(call.name).models :
          /\ Len(Parsed(call.name).models[k].normals)
                > 3 * VertexCount(Parsed(call.name).models[k])
          /\ Len(Parsed(call.name).models[k].texcoords)
                > 2 * VertexCount(Parsed(call.name).models[k])
          /\ Len(LastModel.meshes[k].verticies) = 3

\* the image files the materials of the sub-meshes of a file name
TextureFiles(name) ==
    { file \in UNION { { Parsed(name).materials[sub.material_id].diffuse_texture,
                         Parsed(name).materials[sub.material_id].specular_texture } :
                       sub \in { Parsed(name).models[k] : k \in
                                    { j \in DOMAIN Parsed(name).models :
                                        Parsed(name).models[j].material_id # NoMaterial } } } :
        file # "" }

\* a file the load reads cannot be read: the .obj (or its .mtl), or an image a
\* material names
IoFails(name) ==
    \/ ~Parsed(name).ok
    \/ \E file \in TextureFiles(name) : ImageKind(WithFileName(name, file)) = "missing"

\* C18 as stated: every file I/O failure during Model::load_obj (unreadable
\* .obj or .mtl, missing or undecodable image of a material) comes back as the
\* Err value of load_obj; the load never aborts on one.
C18_IoFailuresAreErr ==
    (call.f = "Model::load_obj" /\ IoFails(call.name)) => (result = "Err" /\ ~panicked)

\* sizes a Vertex record could take: without the texture coordinates, as
\* declared, and with four bytes of padding
VertexSizes == { 24, 32, 36 }

\* how many calls of a name a log holds
CallCount(c, f) == Cardinality({ j \in 1..Len(c) : c[j][1] = f })

\* the mesh the Mesh::new call made last returned
NewMesh == LastModel.meshes[1]

\* C19: Mesh::new checks that a Vertex takes 32 bytes (8 floats) before it
\* makes any GL call: with another size it fails and has generated and
\* uploaded nothing; with 32 bytes it generates one vertex array, one vertex
\* buffer and one index buffer and uploads the vertices and the indices once
\* each.
C19_SizeCheckedFirst ==
    /\ \A size \in VertexSizes :
          size # 32 =>
              /\ ~MeshNewSized(Fresh(gl), size, Verticies(Quad), Quad.indices, << >>).ok
              /\ MeshNewSized(Fresh(gl), size, Verticies(Quad), Quad.indices, << >>).gl
                    = Fresh(gl)
    /\ call.f = "Mesh::new" =>
          /\ VertexSize = 32
          /\ CallCount(gl.calls, "GenVertexArrays") = 1
          /\ CallCount(gl.calls, "GenBuffers") = 2
          /\ CallCount(gl.calls, "BufferData") = 2
          /\ \E j \in 1..Len(gl.calls) : gl.calls[j] = << "GenVertexArrays", NewMesh.vao >>
          /\ \E j \in 1..Len(gl.calls) : gl.calls[j] = << "GenBuffers", NewMesh.vbo >>
          /\ \E j \in 1..Len(gl.calls) : gl.calls[j] = << "GenBuffers", NewMesh.ebo >>
          /\ NewMesh.vbo # NewMesh.ebo
          /\ \E j \in 1..Len(gl.calls) :
                gl.calls[j] = << "BufferData", "ARRAY_BUFFER", Len(NewMesh.verticies) >>
          /\ \E j \in 1..Len(gl.calls) :
                gl.calls[j] = << "BufferData", "ELEMENT_ARRAY_BUFFER", Len(NewMesh.indices) >>
          /\ gl.buffers[NewMesh.vbo] = [len |-> Len(NewMesh.verticies), uploads |-> 1]
          /\ gl.buffers[NewMesh.ebo] = [len |-> Len(NewMesh.indices), uploads |-> 1]
          /\ gl.vaos[NewMesh.vao].ebo = NewMesh.ebo

\* a Mesh::new call made when vertex arrays and buffers of earlier meshes exist
C19_Witness ==
    /\ call.f = "Mesh::new"
    /\ NewMesh.vao > 1
    /\ NewMesh.ebo > 2
    /\ gl.buffers[NewMesh.ebo].uploads = 1

\* the element count of the n-th draw call of a log
DrawCount(c, n) == c[NthDraw(c, n)][2]

\* C20: no draw modifies a mesh: from its construction on a mesh keeps its
\* vertex, index and texture lists and its handles through every later call,
\* and a draw leaves every buffer, vertex array and texture object as it was;
\* the element count of every draw call is the number of indices that the one
\* upload at construction put in the index buffer of the mesh.
C20_DrawsLeaveMeshes ==
    /\ [](/\ call.f \in {"Mesh::draw", "Mesh::draw_instanced"} =>
                /\ DrawCount(gl.calls, 1) = gl.buffers[DrawnMesh.ebo].len
                /\ gl.buffers[DrawnMesh.ebo].uploads = 1
                /\ gl.vaos[DrawnMesh.vao].ebo = DrawnMesh.ebo
          /\ call.f = "Model::draw" =>
                \A k \in DOMAIN models[call.model].meshes :
                    /\ DrawCount(gl.calls, k)
                          = gl.buffers[models[call.model].meshes[k].ebo].len
                    /\ gl.vaos[models[call.model].meshes[k].vao].ebo
                          = models[call.model].meshes[k].ebo)
    /\ [][/\ \A m \in DOMAIN models : m \in DOMAIN models' /\ models'[m] = models[m]
          /\ call'.f \in Draws =>
                /\ models' = models
                /\ gl'.buffers = gl.buffers
                /\ gl'.vaos = gl.vaos
                /\ gl'.textures = gl.textures]_vars

\* an instanced draw, not the first call after the load, of a mesh of four
\* vertices and six indices
C20_Witness ==
    /\ call.f = "Mesh::draw_instanced"
    /\ ops >= 3
    /\ Len(DrawnMesh.verticies) = 4
    /\ Len(DrawnMesh.indices) = 6
    /\ DrawCount(gl.calls, 1) = 6

----------------------------------------------------------------------------
(* Properties of the texture loaders *)

\* C14 as stated: load_cubemap succeeds only with exactly 6 paths that all
\* decode to RGB images, and then path i is the image of face POSITIVE_X + i;
\* with fewer or more than 6 paths, or with an image that is not RGB, it fails.
C14_SixRgbFacesOrFailure ==
    call.f = "load_cubemap" =>
        /\ result = "Ok" <=>
              /\ Len(call.paths) = 6
              /\ \A i \in 1..Len(call.paths) : ImageKind(call.paths[i]) = "ImageRgb8"
        /\ result = "Ok" =>
              /\ returned # 0
              /\ { f \in gl.faces : f[1] = returned }
                    = { << returned, i, call.paths[i + 1], "RGB" >> : i \in 0..5 }

\* C15: load_texture uploads an RGB8 image as RGB with wrap REPEAT on both
\* axes and an RGBA8 image as RGBA with wrap CLAMP_TO_EDGE on both axes, and
\* returns the texture it uploaded to; for any other kind of image (and for a
\* file it cannot open) it fails and returns no handle.
C15_FormatAndWrap ==
    call.f = "load_texture" =>
        /\ ImageKind(call.path) = "ImageRgb8" =>
              /\ result = "Ok" /\ returned # 0
              /\ gl.textures[returned].path = call.path
              /\ gl.textures[returned].format = "RGB"
              /\ gl.textures[returned].wrap.S = "REPEAT"
              /\ gl.textures[returned].wrap.T = "REPEAT"
        /\ ImageKind(call.path) = "ImageRgba8" =>
              /\ result = "Ok" /\ returned # 0
              /\ gl.textures[returned].path = call.path
              /\ gl.textures[returned].format = "RGBA"
              /\ gl.textures[returned].wrap.S = "CLAMP_TO_EDGE"
              /\ gl.textures[returned].wrap.T = "CLAMP_TO_EDGE"
        /\ ImageKind(call.path) \notin {"ImageRgb8", "ImageRgba8"} =>
              /\ result = "panic" /\ panicked
              /\ returned = 0
        /\ result = "Ok" =>
              /\ CallCount(gl.calls, "TexImage2D") = 1
              /\ \E j \in 1..Len(gl.calls) : gl.calls[j] = << "GenTextures", returned >>

\* an image with an alpha channel, loaded after an image without
C15_Witness ==
    /\ call.f = "load_texture"
    /\ ImageKind(call.path) = "ImageRgba8"
    /\ returned > 1
    /\ gl.textures[returned].wrap.S = "CLAMP_TO_EDGE"
    /\ \E id \in 1..(returned - 1) : gl.textures[id].wrap.S = "REPEAT"

----------------------------------------------------------------------------
(* Properties of Shader *)

\* where the n-th call of a name is in a log
NthCall(c, f, n) ==
    CHOOSE j \in 1..Len(c) :
        /\ c[j][1] = f
        /\ Cardinality({ i \in 1..j : c[i][1] = f }) = n

Creations == { "Shader::from_str", "Shader::with_geometry_shader" }

\* the stages of the creation made last whose source does not compile
Failing == { k \in DOMAIN call.stages : ~Compiles(call.stages[k][2]) }

\* the first of them
FirstFailing == CHOOSE k \in Failing : \A j \in Failing : k <= j

\* the message that names a stage
CompileFailure(ty) ==
    IF ty = "VERTEX_SHADER" THEN "failed to compile vertex shader"
    ELSE IF ty = "GEOMETRY_SHADER" THEN "failed to compile geometry shader"
    ELSE "failed to compile fragment shader"

\* the program a creation made
Created == gl.calls[NthCall(gl.calls, "CreateProgram", 1)][2]

\* C16: Shader::from_str compiles vertex then fragment, and
\* Shader::with_geometry_shader vertex, geometry, fragment; the first stage
\* that does not compile aborts the call with a message that names it: no
\* later stage is compiled, no program is created or linked.  Only when every
\* stage compiled are all of them attached to one new program, which is then
\* linked; a link failure aborts the call too, and a Shader (of that program)
\* is returned only when the compiles and the link succeeded.
C16_CompileInOrderThenLink ==
    call.f \in Creations =>
        /\ [k \in DOMAIN call.stages |-> call.stages[k][1]]
              = IF call.f = "Shader::from_str"
                THEN << "VERTEX_SHADER", "FRAGMENT_SHADER" >>
                ELSE << "VERTEX_SHADER", "GEOMETRY_SHADER", "FRAGMENT_SHADER" >>
        /\ IF Failing # {}
           THEN /\ result = CompileFailure(call.stages[FirstFailing][1])
                /\ panicked /\ returned = 0
                /\ CallCount(gl.calls, "CompileShader") = FirstFailing
                /\ \A k \in 1..FirstFailing :
                      gl.calls[NthCall(gl.calls, "CreateShader", k)][2] = call.stages[k][1]
                /\ CallCount(gl.calls, "CreateProgram") = 0
                /\ CallCount(gl.calls, "AttachShader") = 0
                /\ CallCount(gl.calls, "LinkProgram") = 0
           ELSE /\ CallCount(gl.calls, "CompileShader") = Len(call.stages)
                /\ \A k \in DOMAIN call.stages :
                      /\ gl.calls[NthCall(gl.calls, "CreateShader", k)][2]
                            = call.stages[k][1]
                      /\ gl.calls[NthCall(gl.calls, "AttachShader", k)]
                            = << "AttachShader", Created,
                                 gl.calls[NthCall(gl.calls, "CreateShader", k)][3] >>
                      /\ NthCall(gl.calls, "CompileShader", k)
                            < NthCall(gl.calls, "CreateProgram", 1)
                      /\ NthCall(gl.calls, "AttachShader", k)
                            < NthCall(gl.calls, "LinkProgram", 1)
                /\ CallCount(gl.calls, "CreateProgram") = 1
                /\ CallCount(gl.calls, "AttachShader") = Len(call.stages)
                /\ CallCount(gl.calls, "LinkProgram") = 1
                /\ gl.calls[NthCall(gl.calls, "LinkProgram", 1)] = << "LinkProgram", Created >>
                /\ IF gl.programs[Created].linked
                   THEN result = "Ok" /\ ~panicked /\ returned = Created
                   ELSE result = "failed to link program" /\ panicked /\ returned = 0

\* a creation with a geometry stage that does not compile, after one that
\* went through
C16_Witness ==
    /\ call.f = "Shader::with_geometry_shader"
    /\ ops = 2
    /\ FirstFailing = 2
    /\ result = "failed to compile geometry shader"
    /\ CallCount(gl.calls, "CompileShader") = 2
    /\ \E p \in DOMAIN gl.programs : gl.programs[p].attached # << >>

Setters == { "Shader::set_float", "Shader::set_integer", "Shader::set_matrix4",
             "Shader::set_vec2", "Shader::set_vec3", "Shader::bind_uniform_block" }

\* the program of a setter call does not contain the name of the call
Misses(c) ==
    IF c.f = "Shader::bind_uniform_block"
    THEN \A i \in DOMAIN ProgramBlocks[c.shader] : ProgramBlocks[c.shader][i] # c.name
    ELSE \A i \in DOMAIN ProgramUniforms[c.shader] : ProgramUniforms[c.shader][i] # c.name

\* C17 as stated: a call of any setter of Shader (set_float, set_integer,
\* set_matrix4, set_vec2, set_vec3, bind_uniform_block) with a name the program
\* does not contain logs a warning, does not abort, and leaves every uniform
\* value and block binding unchanged.
C17_MissWarnsAndWritesNothing ==
    [][(call'.f \in Setters /\ Misses(call')) =>
          /\ gl'.warnings = gl.warnings + 1
          /\ ~panicked'
          /\ gl'.uniforms = gl.uniforms
          /\ gl'.blocks = gl.blocks]_vars

----------------------------------------------------------------------------
(* Properties of the render loop *)

\* the steps of an iteration that follow the handling of its events
StepsAfterEvents == << "process_mouse", "draw", "swap_buffers", "poll_events" >>

\* the set_matrix4 calls of a log for a uniform name: the positions of their
\* glGetUniformLocation, each followed by its glUniformMatrix4fv
MatrixWrites(c, name) ==
    { j \in 1..Len(c) : c[j][1] = "GetUniformLocation" /\ c[j][3] = name }

\* the frame of the iteration has been drawn and is not yet presented
FrameDrawn == pc = "swap_buffers" /\ call.f = "frame"

\* C21: an iteration of the loop handles the events it found pending, in queue
\* order, then polls the keyboard once, then draws, then presents, then polls
\* for new events; the view and projection matrices its draw calls are given
\* are those of the camera as the event handling and the keyboard poll of the
\* same iteration left it.
C21_IterationInOrder ==
    /\ Len(trace) <= Len(flushed) + Len(StepsAfterEvents)
    /\ \A i \in 1..Len(trace) :
          IF i <= Len(flushed)
          THEN trace[i].step = "event" /\ trace[i].event = flushed[i]
          ELSE trace[i].step = StepsAfterEvents[i - Len(flushed)]
    /\ pc = "events" => Len(trace) + Len(queue) = Len(flushed)
    /\ FrameDrawn =>
          /\ trace[Len(trace) - 1].step = "process_mouse"
          /\ op = "poll"
          /\ \A j \in MatrixWrites(gl.calls, "view") :
                gl.calls[j + 1][3] \in
                    { << "look_at_dir", position, direction, Up >>,
                      << "look_at_dir", << 0, 0, 0 >>, direction, Up >> }
          /\ \A j \in MatrixWrites(gl.calls, "projection") :
                gl.calls[j + 1][3] = << "perspective", fov, ratio >>

\* an iteration has handled two different events, has moved the camera with
\* the keyboard, and has drawn with the camera that resulted
C21_Witness ==
    /\ FrameDrawn
    /\ Len(flushed) = 2
    /\ flushed[1] # flushed[2]
    /\ before.position # position
    /\ MatrixWrites(gl.calls, "view") # {}

\* the program in use when entry j of the frame's call log c is made: the one
\* of the last UseProgram before it, the one in use at the start of the frame
\* if there is none
ProgramAt(c, j) ==
    IF \E i \in 1..(j - 1) : c[i][1] = "UseProgram"
    THEN c[CHOOSE i \in 1..(j - 1) :
               /\ c[i][1] = "UseProgram"
               /\ \A k \in (i + 1)..(j - 1) : c[k][1] # "UseProgram"][2]
    ELSE entry.program

\* the uniform lookups of the log: one per setter call, made on the shader the
\* setter is called on and followed by the write
Lookups(c) == { j \in 1..Len(c) : c[j][1] = "GetUniformLocation" }

\* the draws of the log
FrameDraws(c) == { j \in 1..Len(c) : c[j][1] \in { "DrawElements", "DrawElementsInstanced" } }

\* the shader a draw of a textured mesh was passed: the one its set_texture
\* looked the sampler up in
DrawShader(c, j) == c[CHOOSE i \in Lookups(c) : i < j /\ \A k \in Lookups(c) : k < j => k <= i][2]

\* C22: in a frame of an example that draws through Mesh and Model, every
\* uniform write through a Shader (the set_* calls of the frame and the
\* set_integer of Mesh::draw and Mesh::draw_instanced) is made while the
\* program of that shader is in use, every draw is issued with the program of
\* the shader it was passed in use, and in the asteroid example the rock
\* program holds the frame's projection and view when the rocks are drawn
C22_WritesReachTheirProgram ==
    (FrameDrawn /\ example \in { "asteroid", "normal", "stencil" }) =>
        /\ \A j \in Lookups(gl.calls) : ProgramAt(gl.calls, j) = gl.calls[j][2]
        /\ \A j \in FrameDraws(gl.calls) :
              (\E i \in Lookups(gl.calls) : i < j) =>
                  ProgramAt(gl.calls, j) = DrawShader(gl.calls, j)
        /\ example = "asteroid" =>
              /\ gl.uniforms[rock_shader][GetUniformLocation(rock_shader, "projection") + 1]
                     = Projection
              /\ gl.uniforms[rock_shader][GetUniformLocation(rock_shader, "view") + 1] = View

----------------------------------------------------------------------------
(* Properties of the texture list of load_obj *)

\* the texture kinds the material of a sub-mesh asks for, diffuse first
KindsOf(material) ==
    (IF material.diffuse_texture # "" THEN << "Diffuse" >> ELSE << >>)
        \o (IF material.specular_texture # "" THEN << "Specular" >> ELSE << >>)

\* the files the material of a sub-mesh names, diffuse first
FilesOf(material) ==
    (IF material.diffuse_texture # "" THEN << material.diffuse_texture >> ELSE << >>)
        \o (IF material.specular_texture # "" THEN << material.specular_texture >> ELSE << >>)

\* the sampler names set_texture looks up for a mesh, in order
SamplersOf(mesh) ==
    LET c == SetTexture(Fresh(gl), mesh, 1).calls
        at == { j \in 1..Len(c) : c[j][1] = "GetUniformLocation" }
    IN  [n \in 1..Cardinality(at) |->
            c[CHOOSE j \in at : Cardinality({ i \in at : i <= j }) = n][3]]

\* C23: the texture list of every mesh load_obj builds for a sub-mesh with a
\* material holds the diffuse texture first and the specular texture second,
\* the first of kind Diffuse and the second of kind Specular, also when the
\* two name the same file, so that a draw binds them to
\* material.texture_diffuse1 and material.texture_specular1
C23_DiffuseThenSpecular ==
    (call.f = "Model::load_obj" /\ result = "Ok") =>
        \A k \in 1..Len(models[Len(models)].meshes) :
            LET mesh == models[Len(models)].meshes[k]
                sub == Parsed(call.name).models[k]
            IN  sub.material_id # NoMaterial =>
                    LET material == Parsed(call.name).materials[sub.material_id]
                    IN  /\ Len(mesh.textures) = Len(KindsOf(material))
                        /\ \A i \in 1..Len(mesh.textures) :
                              /\ mesh.textures[i].type_ = KindsOf(material)[i]
                              /\ gl.textures[mesh.textures[i].id].path
                                     = WithFileName(call.name, FilesOf(material)[i])
                        /\ SamplersOf(mesh)
                               = [i \in 1..Len(mesh.textures) |->
                                     IF KindsOf(material)[i] = "Diffuse"
                                     THEN "material.texture_diffuse1"
                                     ELSE "material.texture_specular1"]

----------------------------------------------------------------------------
(* Properties of the shader objects of a creation *)

\* the shader objects a creation made: the ids its glCreateShader calls returned
StagesCreated(c) == { c[j][3] : j \in { i \in 1..Len(c) : c[i][1] = "CreateShader" } }

\* the glDeleteShader calls of a log for a shader object
Deletions(c, id) == { j \in 1..Len(c) : c[j] = << "DeleteShader", id >> }

\* C24: when from_str or with_geometry_shader has returned or aborted, after
\* success, after a link failure and after the compile failure of any stage,
\* every shader object the call created, the one that failed to compile
\* included, has been deleted exactly once, and the call has deleted no program
C24_StagesDeletedOnce ==
    call.f \in Creations =>
        /\ \A id \in StagesCreated(gl.calls) :
              /\ Cardinality(Deletions(gl.calls, id)) = 1
              /\ gl.shaders[id].deleted
        /\ CallCount(gl.calls, "DeleteProgram") = 0

----------------------------------------------------------------------------
(* Properties of the handlers of the camera, step by step *)

\* a step that applies a cursor move
MoveStep == steps' # steps /\ op' = "move"

\* what every applied cursor move does: the scaled offsets are added, the
\* pitch is clamped after the addition, the yaw is not, the position is stored
MoveAddsOffsets ==
    /\ yaw' = yaw + Scaled(event'.x - last_x)
    /\ pitch' = Clamp(pitch + Scaled(last_y - event'.y), PitchMin, PitchMax)
    /\ << last_x', last_y' >> = << event'.x, event'.y >>

\* C25, as stated: every applied cursor move adds 0.05 * (xpos - last_x) to
\* the yaw and 0.05 * (last_y - ypos) to the pitch before the clamp and then
\* stores (xpos, ypos); the yaw is neither clamped nor wrapped; a cursor event
\* at the stored position leaves yaw and pitch as they are
C25_MoveAddsOffsets ==
    [][MoveStep =>
          /\ MoveAddsOffsets
          /\ << event'.x, event'.y >> = << last_x, last_y >> =>
                yaw' = yaw /\ pitch' = pitch]_vars

\* C25: every applied cursor move adds 0.05 * (xpos - last_x) to the yaw and
\* 0.05 * (last_y - ypos) to the pitch before the clamp and then stores
\* (xpos, ypos); the yaw is neither clamped nor wrapped; a cursor event at the
\* stored position leaves the yaw as it is, and the pitch as it is when that
\* is within [-89, 89]: a pitch out of the range is moved to the nearer limit
C25_MoveAddsOffsetsThenClamps ==
    [][MoveStep =>
          /\ MoveAddsOffsets
          /\ << event'.x, event'.y >> = << last_x, last_y >> =>
                /\ yaw' = yaw
                /\ InPitchRange(pitch) => pitch' = pitch
                /\ pitch > PitchMax => pitch' = PitchMax
                /\ pitch < PitchMin => pitch' = PitchMin]_vars

\* a cursor event at the stored position, after a move that turned the camera
C25_Witness ==
    /\ op = "move"
    /\ << before.last_x, before.last_y >> = << event.x, event.y >>
    /\ before.yaw # NewYaw
    /\ yaw = before.yaw /\ pitch = before.pitch

\* C26: the handlers are separate: a Scroll event changes nothing but the
\* fov, a CursorPos event changes neither the fov nor the position, every
\* other event leaves the camera as it is, and no handler, the keyboard poll
\* included, changes the aspect ratio
C26_HandlersSeparate ==
    [][steps' # steps =>
          /\ event'.type = "Scroll" => camera' = [camera EXCEPT !.fov = fov']
          /\ event'.type = "CursorPos" => fov' = fov /\ position' = position
          /\ event'.type \in { "Key", "FramebufferSize" } => camera' = camera
          /\ ratio' = ratio]_vars

\* an event that is neither CursorPos nor Scroll, handled by a camera whose
\* cursor latch and fov earlier events had changed
C26_Witness ==
    /\ op = "other"
    /\ camera = before
    /\ ~first_mouse
    /\ fov # created.fov
    /\ ratio = 1333

----------------------------------------------------------------------------
(* Properties of the frames of stencil.rs and cubemap.rs *)

\* the last entry before entry j of a log that is a call of one of fs, 0 if
\* there is none
LastBefore(c, j, fs) ==
    IF \E i \in 1..(j - 1) : c[i][1] \in fs
    THEN CHOOSE i \in 1..(j - 1) :
             /\ c[i][1] \in fs
             /\ \A k \in (i + 1)..(j - 1) : c[k][1] \notin fs
    ELSE 0

\* the stencil write mask when entry j of the frame's log is made
MaskAt(c, j) ==
    IF LastBefore(c, j, { "StencilMask" }) = 0 THEN entry.stencil_mask
    ELSE c[LastBefore(c, j, { "StencilMask" })][2]

\* the stencil function when entry j of the frame's log is made
StencilFuncAt(c, j) ==
    IF LastBefore(c, j, { "StencilFunc" }) = 0 THEN entry.stencil_func
    ELSE Tail(c[LastBefore(c, j, { "StencilFunc" })])

\* the entries of a log that switch the depth test
DepthSwitches(c) ==
    { i \in 1..Len(c) : c[i] \in { << "Enable", "DEPTH_TEST" >>, << "Disable", "DEPTH_TEST" >> } }

\* whether the depth test is on when entry j of the frame's log is made
DepthTestAt(c, j) ==
    IF \E i \in DepthSwitches(c) : i < j
    THEN c[CHOOSE i \in DepthSwitches(c) :
               i < j /\ \A k \in DepthSwitches(c) : k < j => k <= i][1] = "Enable"
    ELSE entry.depth_test

\* the draws of a frame made with a program in use
DrawsWith(c, p) ==
    { j \in 1..Len(c) : c[j][1] \in { "DrawElements", "DrawArrays" } /\ ProgramAt(c, j) = p }

\* the frame of stencil.rs has been drawn
StencilFrameDrawn == FrameDrawn /\ example = "stencil"

\* C27: in stencil.rs, at the clear that starts a frame, the first one
\* included, the stencil write mask is 0xFF and the depth test is on; the
\* model pass is drawn with stencil function ALWAYS (ref 1), write mask 0xFF
\* and the depth test on; the outline pass is drawn after it with stencil
\* function NOTEQUAL (ref 1), write mask 0x00 and the depth test off; mask and
\* depth test are restored before the frame is presented
C27_StencilPasses ==
    StencilFrameDrawn =>
        /\ gl.calls[1][1] = "Clear"
        /\ MaskAt(gl.calls, 1) = 255 /\ DepthTestAt(gl.calls, 1)
        /\ DrawsWith(gl.calls, shader_program("stencil")) # {}
        /\ DrawsWith(gl.calls, border_shader) # {}
        /\ \A j \in DrawsWith(gl.calls, shader_program("stencil")) :
              /\ SubSeq(StencilFuncAt(gl.calls, j), 1, 2) = << "ALWAYS", 1 >>
              /\ MaskAt(gl.calls, j) = 255
              /\ DepthTestAt(gl.calls, j)
              /\ \A k \in DrawsWith(gl.calls, border_shader) : j < k
        /\ \A k \in DrawsWith(gl.calls, border_shader) :
              /\ SubSeq(StencilFuncAt(gl.calls, k), 1, 2) = << "NOTEQUAL", 1 >>
              /\ MaskAt(gl.calls, k) = 0
              /\ ~DepthTestAt(gl.calls, k)
        /\ FrameDraws(gl.calls)
               = DrawsWith(gl.calls, shader_program("stencil"))
                     \cup DrawsWith(gl.calls, border_shader)
        /\ gl.stencil_mask = 255 /\ gl.depth_test

\* the second frame of stencil.rs, drawn with both passes
C27_Witness ==
    /\ StencilFrameDrawn
    /\ frames = 1
    /\ Cardinality(DrawsWith(gl.calls, shader_program("stencil"))) = 2
    /\ Cardinality(DrawsWith(gl.calls, border_shader)) = 2
    /\ entry.stencil_mask = 255 /\ entry.depth_test

\* the depth function when entry j of the frame's log is made
DepthFuncAt(c, j) ==
    IF LastBefore(c, j, { "DepthFunc" }) = 0 THEN entry.depth_func
    ELSE c[LastBefore(c, j, { "DepthFunc" })][2]

\* C28: in every frame of cubemap.rs the cubes and the floor are drawn with
\* the depth function LESS and the skybox, and nothing else, with LEQUAL: the
\* depth function of the scene is the same in the first and in every later
\* frame
C28_SceneDrawnWithLess ==
    (FrameDrawn /\ example = "cubemap") =>
        /\ Cardinality(DrawsWith(gl.calls, shader_program("cubemap"))) = 3
        /\ Cardinality(DrawsWith(gl.calls, skybox_shader)) = 1
        /\ \A j \in DrawsWith(gl.calls, shader_program("cubemap")) :
              DepthFuncAt(gl.calls, j) = "LESS"
        /\ \A j \in DrawsWith(gl.calls, skybox_shader) :
              DepthFuncAt(gl.calls, j) = "LEQUAL"

----------------------------------------------------------------------------
(* Properties of the end of the loop *)

\* the events of the trace of the current iteration
Handled == SelectSeq(trace, LAMBDA t : t.step = "event")

\* C29: in the loop of every example, once an Escape press is handled the
\* close flag is set and is never cleared; the events flushed with it are
\* still handled, the frame of that iteration is drawn and presented, and the
\* loop exits at the next check of its condition, so that exactly one frame is
\* presented after the Escape and the program terminates; a loop that saw
\* neither an Escape press nor a close request of the window does not exit
C29_EscapeEndsTheLoop ==
    /\ [](escaped # -1 => should_close)
    /\ [][should_close => should_close']_vars
    /\ []((escaped = frames /\ pc \in { "draw", "swap_buffers" }) =>
             /\ queue = << >>
             /\ [i \in 1..Len(Handled) |-> Handled[i].event] = flushed
             /\ \E i \in 1..Len(flushed) : EscapePress(flushed[i]))
    /\ []((escaped # -1 /\ pc \in { "poll_events", "while", "exit" }) =>
             frames = escaped + 1)
    /\ [](pc = "exit" => escaped # -1 \/ requested)
    /\ (escaped # -1) ~> (pc = "exit")

\* the loop has exited after an Escape press that was not the last event of
\* its batch, one frame after it, with no close request of the window
C29_Witness ==
    /\ pc = "exit"
    /\ escaped = 1
    /\ frames = 2
    /\ ~requested
    /\ Len(flushed) = 2
    /\ EscapePress(flushed[1])

====
